---- MODULE Spec2Model ----
(***************************************************************************)
(* The conversation memory (app/memory.py), the orchestrator run_agent     *)
(* (app/agent.py) and the webhook transport (app/app.py) of the LaHaus     *)
(* concierge, as a state machine.                                          *)
(*                                                                         *)
(* Spec        the Flask application: webhook and reset_conversation for   *)
(*             one sender.                                                 *)
(* MemorySpec  a PropertyConciergeMemory object driven through its public  *)
(*             methods, as tests/test_agent.py drives it.                  *)
(* ConcurrentSpec  webhook handlers of two senders running in separate     *)
(*             threads of the Flask server, interleaved statement by       *)
(*             statement.                                                  *)
(* FormatSpec  templates.format_whatsapp_message applied to a message.     *)
(* FilterSpec  search.apply_filters applied to a property list and a       *)
(*             filter set, and again to its own result.                    *)
(* RecordSpec  the same, on property lists with records that lack a field. *)
(* RankSpec    search.rank_properties applied to a property list and the   *)
(*             words of a query.                                           *)
(***************************************************************************)
EXTENDS Integers, Sequences, FiniteSets, TLC

VARIABLES
    conversation_contexts,  \* app.py: sender -> list of {role, content}
    agent_instances,        \* app.py: sender -> the agent's PropertyConciergeMemory
    conversation_metrics,   \* app.py: sender -> total_messages
    DEBUG_MODE,             \* config.py: DEBUG_MODE
    resets,                 \* number of reset_conversation calls served
    llm_failures,           \* number of agent.invoke calls that raised
    memory,                 \* MemorySpec: the PropertyConciergeMemory under test
    call,                   \* what the last handler or method call did and returned
    handlers                \* ConcurrentSpec: sender -> the request in flight

vars == <<conversation_contexts, agent_instances, conversation_metrics,
          DEBUG_MODE, resets, llm_failures, memory, call, handlers>>

(***************************************************************************)
(* Configuration (app/config.py) and bounds of the exploration.            *)
(***************************************************************************)
MAX_CONVERSATION_HISTORY == 10
SUMMARY_INTERVAL == 5
MAX_LENGTH == 4096     \* templates.format_whatsapp_message: MAX_LENGTH

MaxMessages == 6      \* webhook calls explored per run
MaxLLMFailures == 1    \* language-model calls that raise, per run
MaxResets == 1         \* reset_conversation calls per run
MaxTurns == 15         \* save_context calls explored on the bare memory
MaxClicks == 1         \* log_property_click / log_search calls on the bare memory
MaxHandled == 2        \* webhook calls per sender under ConcurrentSpec
MaxProperties == 3     \* length of the property list handed to apply_filters
MaxRecords == 2        \* the same under RecordSpec
MaxRanked == 3         \* length of the property list handed to rank_properties
MaxPhrases == 2        \* phrases making up a query handed to extract_filters
MaxResults == 3        \* largest max_results handed to search_properties
MaxShown == 2          \* length of the property list handed to the renderers
MaxText == 5           \* characters of a text handed to add_line_breaks
MaxLineLength == 3     \* largest max_line_length handed to add_line_breaks

Sender == "whatsapp:+573000000000"

Max(a, b) == IF a >= b THEN a ELSE b

\* Python dicts as functions.
EmptyDict == [k \in {} |-> 0]
Put(d, key, value) == [k \in (DOMAIN d) \cup {key} |-> IF k = key THEN value ELSE d[k]]
Del(d, key) == [k \in (DOMAIN d) \ {key} |-> d[k]]

(***************************************************************************)
(* Texts.  A text is identified by who wrote it and for which message:     *)
(* UserText(n) is the body of the n-th message, ModelText(n) the model's   *)
(* answer to it, SummaryText(fed) the string built at memory.py:128 from a *)
(* summary memory that was fed the texts in fed.                           *)
(***************************************************************************)
UserText(n) == [by |-> "user", n |-> n, fed |-> {}]
ModelText(n) == [by |-> "model", n |-> n, fed |-> {}]
SummaryText(fed) == [by |-> "summary", n |-> 0, fed |-> fed]

\* len(text).  Nothing in the code bounds the length of the model's output:
\* the answer to every third message is 5000 characters long, every other
\* text 50.
text_length(text) ==
    IF text.by = "model" /\ text.n % 3 = 0 THEN 5000 ELSE 50

\* chat_memory.add_user_message / add_ai_message wrap a text in a message
\* object; the summary is stored as a bare str (memory.py:128-132).
HumanMessage(text) == [type |-> "HumanMessage", content |-> text]
AIMessage(text) == [type |-> "AIMessage", content |-> text]
StrEntry(text) == [type |-> "str", content |-> text]

\* isinstance(entry, BaseMessage): the entry has a .content attribute.
IsMessage(entry) == entry.type \in {"HumanMessage", "AIMessage"}

(***************************************************************************)
(* PropertyConciergeMemory                                                 *)
(***************************************************************************)
engagement_metrics0 ==
    [message_count |-> 0, search_count |-> 0,
     property_clicks |-> 0, interest_indicators |-> 0]

\* PropertyConciergeMemory.__init__
NewMemory(llm) ==
    [messages |-> <<>>,
     llm |-> llm,
     user_preferences |-> EmptyDict,
     property_history |-> <<>>,
     engagement_metrics |-> engagement_metrics0]

\* Variant: one message fewer than messages[-MAX_CONVERSATION_HISTORY:].
recent_messages_short(messages) ==
    SubSeq(messages, Len(messages) - MAX_CONVERSATION_HISTORY + 2, Len(messages))

\* messages[-MAX_CONVERSATION_HISTORY:]
recent_messages(messages) ==
    SubSeq(messages, Len(messages) - MAX_CONVERSATION_HISTORY + 1, Len(messages))

\* messages[:-MAX_CONVERSATION_HISTORY]
older_messages(messages) ==
    SubSeq(messages, 1, Len(messages) - MAX_CONVERSATION_HISTORY)

\* The texts handed to summary_memory.save_context by the loop
\* for i in range(0, len(older), 2): the pairs (older[i], older[i+1]) that are
\* a HumanMessage followed by an AIMessage.  (Sequences here are 1-based.)
FedPairs(older) ==
    {i \in 1..Len(older) :
        /\ i % 2 = 1
        /\ i + 1 <= Len(older)
        /\ older[i].type = "HumanMessage"
        /\ older[i + 1].type = "AIMessage"}

fed_texts(older) ==
    UNION {{older[i].content, older[i + 1].content} : i \in FedPairs(older)}

\* Variant: a failing summarization leaves the history as it is.
_summarize_without_fallback(messages, ok) ==
    IF Len(messages) <= MAX_CONVERSATION_HISTORY
    THEN [messages |-> messages, summarized |-> "none"]
    ELSE IF ok
    THEN [messages |->
              <<StrEntry(SummaryText(fed_texts(older_messages(messages))))>>
              \o recent_messages(messages),
          summarized |-> "ok"]
    ELSE [messages |-> messages, summarized |-> "failed"]

\* Variant: the summary is put in front and the older messages stay.
_summarize_keeping_older(messages, ok) ==
    IF Len(messages) <= MAX_CONVERSATION_HISTORY
    THEN [messages |-> messages, summarized |-> "none"]
    ELSE IF ok
    THEN [messages |->
              <<StrEntry(SummaryText(fed_texts(older_messages(messages))))>>
              \o messages,
          summarized |-> "ok"]
    ELSE [messages |-> recent_messages(messages), summarized |-> "failed"]

\* _summarize_older_messages; ok = the try block ran to its end.
\* Returns the new message list and what happened:
\* "none" (returned early), "ok" (summary put in place), "failed" (truncated).
_summarize_older_messages(messages, ok) ==
    IF Len(messages) <= MAX_CONVERSATION_HISTORY
    THEN [messages |-> messages, summarized |-> "none"]
    ELSE IF older_messages(messages) = <<>>
    THEN [messages |-> messages, summarized |-> "none"]
    ELSE IF ok
    THEN [messages |->
              <<StrEntry(SummaryText(fed_texts(older_messages(messages))))>>
              \o recent_messages(messages),
          summarized |-> "ok"]
    ELSE [messages |-> recent_messages(messages), summarized |-> "failed"]

\* Variant: the condition without the test of message_count.
should_summarize_when_long(m, appended) ==
    /\ m.llm
    /\ Len(appended) > SUMMARY_INTERVAL * 2

\* The condition of memory.py:80-81, on the memory after the turn was appended.
should_summarize(m, appended) ==
    /\ m.engagement_metrics.message_count % SUMMARY_INTERVAL = 0
    /\ m.llm
    /\ Len(appended) > SUMMARY_INTERVAL * 2

\* save_context(inputs, outputs).  Returns the memory after the call, the
\* message list as it stood after the two appends, and what summarization did.
save_context(m, input_str, output_str, summary_ok) ==
    LET appended == m.messages \o <<HumanMessage(input_str), AIMessage(output_str)>>
        counted == [m EXCEPT !.engagement_metrics.message_count = @ + 1]
        s == IF should_summarize(counted, appended)
             THEN _summarize_older_messages(appended, summary_ok)
             ELSE [messages |-> appended, summarized |-> "none"]
    IN  [memory |-> [counted EXCEPT !.messages = s.messages],
         appended |-> appended,
         summarized |-> s.summarized]

\* dict.update
DictUpdate(d, partial) ==
    [k \in (DOMAIN d) \cup (DOMAIN partial) |->
        IF k \in DOMAIN partial THEN partial[k] ELSE d[k]]

\* Variant: the preferences are replaced by the new dict.
update_user_preferences_replacing(m, preferences) ==
    [m EXCEPT !.user_preferences = preferences]

\* update_user_preferences
update_user_preferences(m, preferences) ==
    [m EXCEPT !.user_preferences = DictUpdate(@, preferences)]

\* Variant: the ids already in the history are not looked at.
add_property_always(m, property_info) ==
    IF DOMAIN property_info # {} /\ "id" \in DOMAIN property_info
    THEN [m EXCEPT !.property_history = Append(@, property_info)]
    ELSE m

\* add_property_to_history; property_info is a dict, possibly without "id".
add_property_to_history(m, property_info) ==
    IF DOMAIN property_info # {} /\ "id" \in DOMAIN property_info
    THEN IF \A i \in 1..Len(m.property_history) :
                m.property_history[i].id # property_info.id
         THEN [m EXCEPT !.property_history = Append(@, property_info)]
         ELSE m
    ELSE m

\* log_property_click
log_property_click(m) ==
    [m EXCEPT !.engagement_metrics.property_clicks = @ + 1]

\* log_search
log_search(m) ==
    [m EXCEPT !.engagement_metrics.search_count = @ + 1]

\* Variant: the engagement counters survive.
clear_keeping_counters(m) ==
    [m EXCEPT !.messages = <<>>,
              !.user_preferences = EmptyDict,
              !.property_history = <<>>]

\* clear
clear(m) ==
    [m EXCEPT !.messages = <<>>,
              !.user_preferences = EmptyDict,
              !.property_history = <<>>,
              !.engagement_metrics = engagement_metrics0]

(***************************************************************************)
(* extract_client_preferences (app/agent.py)                               *)
(*                                                                         *)
(* What a text mentions: the body of an even-numbered message asks for     *)
(* "<n> habitaciones", the body of an odd-numbered one names chapinero,    *)
(* and every answer of the model names poblado.                            *)
(***************************************************************************)
Gazetteer == <<"chapinero", "poblado">>

bedrooms_in(text) ==
    IF text.by = "user" /\ text.n % 2 = 0 THEN text.n ELSE 0

locations_in(text) ==
    IF text.by = "user" /\ text.n % 2 = 1 THEN {"chapinero"}
    ELSE IF text.by = "model" THEN {"poblado"}
    ELSE {}

\* [msg["content"].lower() for msg in message_history if msg["role"] == "user"]
user_messages(message_history) ==
    LET IsUser(msg) == msg.role = "user"
        picked == SelectSeq(message_history, IsUser)
    IN  [i \in 1..Len(picked) |-> picked[i].content]

\* re.search over the joined text: the first match.
RECURSIVE first_bedrooms(_)
first_bedrooms(texts) ==
    IF texts = <<>> THEN 0
    ELSE IF bedrooms_in(Head(texts)) # 0 THEN bedrooms_in(Head(texts))
    ELSE first_bedrooms(Tail(texts))

\* for location in locations: if location in conversation_text: append
found_locations(texts) ==
    LET Mentioned(location) ==
            \E i \in 1..Len(texts) : location \in locations_in(texts[i])
    IN  SelectSeq(Gazetteer, Mentioned)

\* The keys locations and bedrooms of the result; a key whose value is falsy
\* (empty list, None) is filtered out at the return.
extract_client_preferences(message_history) ==
    LET texts == user_messages(message_history)
        keys == {k \in {"locations", "bedrooms"} :
                    IF k = "locations" THEN found_locations(texts) # <<>>
                    ELSE first_bedrooms(texts) # 0}
    IN  [k \in keys |->
            IF k = "locations" THEN found_locations(texts)
            ELSE first_bedrooms(texts)]

(***************************************************************************)
(* run_agent (app/agent.py)                                                *)
(***************************************************************************)
WelcomeText == [by |-> "welcome", n |-> 0, fed |-> {}]
FallbackText == [by |-> "fallback", n |-> 0, fed |-> {}]
TechnicalErrorText == [by |-> "technical_error", n |-> 0, fed |-> {}]

\* An incoming body: its number of whitespace-separated tokens and whether it
\* contains one of "hola", "buenos dias", "buenas", "saludos".
Inputs == [tokens : {2, 4}, greeting : BOOLEAN]

\* The tool traces the model may return: intermediate_steps, each step the
\* tool's name and the property ids of the lahaus URLs in its output.
Traces ==
    { <<>>,
      << [tool |-> "search_properties", ids |-> <<"p1", "p2">>] >>,
      << [tool |-> "_Exception", ids |-> <<>>],
         [tool |-> "search_properties", ids |-> <<"p1">>],
         [tool |-> "search_properties", ids |-> <<"p2", "p1">>] >> }

\* agent.invoke returns a dict; hasattr(dict, name) holds for the attributes of
\* the dict type, never for its keys.
DictAttributes == {"keys", "values", "items", "get", "update", "pop", "copy"}
hasattr(response, name) == name \in DictAttributes

\* agent.py:255, and the greeting test of agent.py:259-260
is_first_message(m) == Len(m.messages) <= 1

\* Variant: the greeting keywords are not looked for.
is_short_or_greeting_short_only(input) == input.tokens < 3

is_short_or_greeting(input) == input.tokens < 3 \/ input.greeting

\* agent.py:276-278; the role comes from the position (0-based i % 2 == 0).
chat_history_of(messages) ==
    [i \in 1..Len(messages) |->
        [role |-> IF (i - 1) % 2 = 0 THEN "user" ELSE "assistant",
         content |-> messages[i].content]]

\* agent.py:293-296
RECURSIVE add_properties(_, _, _)
add_properties(m, ids, output) ==
    IF ids = <<>> THEN m
    ELSE add_properties(
            add_property_to_history(m, [id |-> Head(ids), shown_at |-> output]),
            Tail(ids), output)

\* agent.py:287-296
RECURSIVE process_steps(_, _, _)
process_steps(m, steps, output) ==
    IF steps = <<>> THEN m
    ELSE IF Head(steps).tool = "search_properties"
    THEN process_steps(add_properties(log_search(m), Head(steps).ids, output),
                       Tail(steps), output)
    ELSE process_steps(m, Tail(steps), output)

\* What run_agent reports back, besides the memory it leaves behind.
Outcome(m, result, llm_called, raised_at, texts, trace, appended, summarized) ==
    [memory |-> m, result |-> result, llm_called |-> llm_called,
     raised_at |-> raised_at, conversation_text |-> texts, trace |-> trace,
     appended |-> appended, summarized |-> summarized]

\* agent.py:281-296, on the chat_history built at agent.py:276-278.
update_from_history(m1, history, response) ==
    LET preferences == extract_client_preferences(history)
        m2 == IF DOMAIN preferences # {}
              THEN update_user_preferences(m1, preferences) ELSE m1
    IN  IF hasattr(response, "intermediate_steps")
           /\ response.intermediate_steps # <<>>
        THEN process_steps(m2, response.intermediate_steps, response.output)
        ELSE m2

\* agent.py:274-296, after agent.invoke returned response; saved is what the
\* executor's save_context left.
post_process(saved, response) ==
    IF Len(saved.memory.messages) > 1
    THEN IF \E i \in 1..Len(saved.memory.messages) :
                ~IsMessage(saved.memory.messages[i])
         THEN \* msg.content on a str: AttributeError
              Outcome(saved.memory, "exception", TRUE, "extract", <<>>,
                      response.intermediate_steps,
                      saved.appended, saved.summarized)
         ELSE Outcome(update_from_history(saved.memory,
                          chat_history_of(saved.memory.messages), response),
                      "output", TRUE, "none",
                      user_messages(chat_history_of(saved.memory.messages)),
                      response.intermediate_steps,
                      saved.appended, saved.summarized)
    ELSE Outcome(saved.memory, "output", TRUE, "none", <<>>,
                 response.intermediate_steps,
                 saved.appended, saved.summarized)

\* The try block of run_agent (agent.py:253-303).  llm_ok: agent.invoke
\* returned; the executor then saved the turn through memory.save_context.
run_agent_try(m, n, input, llm_ok, summary_ok, trace) ==
    IF is_first_message(m) /\ is_short_or_greeting(input)
    THEN Outcome(m, "welcome", FALSE, "none", <<>>, <<>>, <<>>, "none")
    ELSE IF ~llm_ok
    THEN Outcome(m, "exception", TRUE, "invoke", <<>>, <<>>, <<>>, "none")
    ELSE post_process(
            save_context(m, UserText(n), ModelText(n), summary_ok),
            [output |-> ModelText(n), intermediate_steps |-> trace])

\* Variant: only a failing agent.invoke is caught.
run_agent_catching_invoke_only(m, n, input, llm_ok, summary_ok, trace) ==
    LET r == run_agent_try(m, n, input, llm_ok, summary_ok, trace)
    IN  IF r.result = "exception" /\ r.raised_at = "invoke"
        THEN [r EXCEPT !.result = "fallback"] ELSE r

\* run_agent: the try block under except Exception (agent.py:305-307).
run_agent(m, n, input, llm_ok, summary_ok, trace) ==
    LET r == run_agent_try(m, n, input, llm_ok, summary_ok, trace)
    IN  IF r.result = "exception" THEN [r EXCEPT !.result = "fallback"] ELSE r

\* The text run_agent returns.
response_text(r, n) ==
    CASE r.result = "welcome" -> WelcomeText
      [] r.result = "fallback" -> FallbackText
      [] r.result = "output" -> ModelText(n)

(***************************************************************************)
(* create_agent (app/agent.py): a memory with a language model, pre-loaded *)
(* with the conversation history it is given.                              *)
(***************************************************************************)
RECURSIVE load_history(_, _)
load_history(messages, conversation_history) ==
    IF conversation_history = <<>> THEN messages
    ELSE LET message == Head(conversation_history)
         IN  load_history(
                IF message.role = "user"
                THEN Append(messages, HumanMessage(message.content))
                ELSE IF message.role = "assistant"
                THEN Append(messages, AIMessage(message.content))
                ELSE messages,
                Tail(conversation_history))

create_agent(conversation_history) ==
    [NewMemory(TRUE) EXCEPT !.messages = load_history(<<>>, conversation_history)]

(***************************************************************************)
(* The record of the last call; args is the dict a memory method was       *)
(* called with or the arguments of a function, returned what the function  *)
(* returned.                                                               *)
(***************************************************************************)
NoText == [by |-> "none", n |-> 0, fed |-> {}]
NoInput == [tokens |-> 0, greeting |-> FALSE]

Called(op) ==
    [op |-> op, n |-> 0, input |-> NoInput, result |-> "none",
     llm_called |-> FALSE, raised_at |-> "none", conversation_text |-> <<>>,
     trace |-> <<>>, appended |-> <<>>, summarized |-> "none",
     reply |-> NoText, args |-> EmptyDict, returned |-> <<>>]

(***************************************************************************)
(* The Flask application (app/app.py)                                      *)
(***************************************************************************)
Known == Sender \in DOMAIN conversation_contexts

total_messages ==
    IF Sender \in DOMAIN conversation_metrics
    THEN conversation_metrics[Sender].total_messages ELSE 0

\* conversation_contexts[sender][-MAX_CONVERSATION_HISTORY * 2:] when longer
limit_context(context) ==
    IF Len(context) > MAX_CONVERSATION_HISTORY * 2
    THEN SubSeq(context, Len(context) - MAX_CONVERSATION_HISTORY * 2 + 1, Len(context))
    ELSE context

\* utils.format_whatsapp_message
format_whatsapp_message(message) == message

\* app.py:66-72: the sender's context with the incoming message appended.
context_with(n) ==
    limit_context(
        Append(IF Known THEN conversation_contexts[Sender] ELSE <<>>,
               [role |-> "user", content |-> UserText(n)]))

\* app.py:77-78: the sender's agent, created from the context when missing.
agent_for(n) ==
    IF Sender \in DOMAIN agent_instances
    THEN agent_instances[Sender]
    ELSE create_agent(context_with(n))

\* webhook: one incoming message of Sender, handled to the end.
webhook(input, llm_ok, summary_ok, trace) ==
    LET n == total_messages + 1
        context1 == context_with(n)
        agent == agent_for(n)
    IN  \E r \in {run_agent(agent, n, input, llm_ok, summary_ok, trace)} :
        LET raised == r.result = "exception"
            reply == IF raised THEN TechnicalErrorText
                     ELSE format_whatsapp_message(response_text(r, n))
        IN
        /\ n <= MaxMessages
        /\ r.raised_at = "invoke" => llm_failures < MaxLLMFailures
        \* The answer of a collaborator that is not consulted is not an input.
        /\ ~r.llm_called => llm_ok
        /\ (~r.llm_called \/ r.raised_at = "invoke") => trace = <<>>
        /\ r.summarized = "none" => summary_ok
        /\ conversation_metrics' =
              Put(conversation_metrics, Sender, [total_messages |-> n])
        /\ conversation_contexts' =
              Put(conversation_contexts, Sender,
                  IF raised THEN context1
                  ELSE Append(context1,
                              [role |-> "assistant", content |-> response_text(r, n)]))
        /\ agent_instances' = Put(agent_instances, Sender, r.memory)
        /\ llm_failures' = IF r.raised_at = "invoke" THEN llm_failures + 1
                           ELSE llm_failures
        /\ call' = [op |-> "webhook", n |-> n, input |-> input,
                    result |-> r.result, llm_called |-> r.llm_called,
                    raised_at |-> r.raised_at,
                    conversation_text |-> r.conversation_text,
                    trace |-> r.trace, appended |-> r.appended,
                    summarized |-> r.summarized, reply |-> reply,
                    args |-> EmptyDict, returned |-> <<>>]
        /\ UNCHANGED <<DEBUG_MODE, resets, memory, handlers>>

Webhook ==
    \E input \in Inputs, llm_ok \in BOOLEAN, summary_ok \in BOOLEAN, trace \in Traces :
        webhook(input, llm_ok, summary_ok, trace)

\* reset_conversation(user_id) for Sender
reset_conversation ==
    /\ resets < MaxResets
    /\ resets' = resets + 1
    /\ IF DEBUG_MODE /\ Known
       THEN /\ conversation_contexts' = Put(conversation_contexts, Sender, <<>>)
            /\ agent_instances' = Del(agent_instances, Sender)
            /\ call' = [Called("reset") EXCEPT !.result = "success"]
       ELSE /\ UNCHANGED <<conversation_contexts, agent_instances>>
            /\ call' = [Called("reset") EXCEPT !.result = "error"]
    /\ UNCHANGED <<conversation_metrics, DEBUG_MODE, llm_failures, memory, handlers>>

Init ==
    /\ conversation_contexts = EmptyDict
    /\ agent_instances = EmptyDict
    /\ conversation_metrics = EmptyDict
    /\ DEBUG_MODE \in BOOLEAN
    /\ resets = 0
    /\ llm_failures = 0
    /\ memory = NewMemory(TRUE)
    /\ call = Called("none")
    /\ handlers = EmptyDict

Next == Webhook \/ reset_conversation

Spec == Init /\ [][Next]_vars

\* The application when every language-model call succeeds: agent.invoke
\* returns and the summarization chain returns.
WebhookAnswered ==
    \E input \in Inputs, trace \in Traces : webhook(input, TRUE, TRUE, trace)

AnsweredNext == WebhookAnswered \/ reset_conversation

AnsweredSpec == Init /\ [][AnsweredNext]_vars

(***************************************************************************)
(* A PropertyConciergeMemory driven through its methods.                   *)
(***************************************************************************)
Partials ==
    { EmptyDict,
      [k \in {"bedrooms"} |-> 2],
      [k \in {"bedrooms", "property_type"} |->
          IF k = "bedrooms" THEN 3 ELSE "casa"] }

PropertyInfos ==
    { EmptyDict,
      [k \in {"title"} |-> "Casa"],
      [k \in {"id"} |-> "p1"],
      [k \in {"id", "title"} |-> IF k = "id" THEN "p1" ELSE "Apartamento"],
      [k \in {"id"} |-> "p2"] }

\* The histories a memory is created with: none, or the first message of the
\* conversation as the webhook hands it to create_agent.
Preloads == {<<>>, <<[role |-> "user", content |-> UserText(0)]>>}

app_untouched ==
    UNCHANGED <<conversation_contexts, agent_instances, conversation_metrics,
                DEBUG_MODE, resets, llm_failures, handlers>>

SaveContext ==
    \E summary_ok \in BOOLEAN :
        LET n == memory.engagement_metrics.message_count + 1
            r == save_context(memory, UserText(n), ModelText(n), summary_ok)
        IN  /\ n <= MaxTurns
            /\ memory' = r.memory
            /\ call' = [Called("save_context") EXCEPT
                            !.n = n, !.appended = r.appended,
                            !.summarized = r.summarized]
            /\ app_untouched

UpdateUserPreferences ==
    \E preferences \in Partials :
        /\ memory' = update_user_preferences(memory, preferences)
        /\ call' = [Called("update_user_preferences") EXCEPT !.args = preferences]
        /\ app_untouched

AddPropertyToHistory ==
    \E property_info \in PropertyInfos :
        /\ memory' = add_property_to_history(memory, property_info)
        /\ call' = [Called("add_property_to_history") EXCEPT !.args = property_info]
        /\ app_untouched

LogPropertyClick ==
    /\ memory.engagement_metrics.property_clicks < MaxClicks
    /\ memory' = log_property_click(memory)
    /\ call' = Called("log_property_click")
    /\ app_untouched

LogSearch ==
    /\ memory.engagement_metrics.search_count < MaxClicks
    /\ memory' = log_search(memory)
    /\ call' = Called("log_search")
    /\ app_untouched

Clear ==
    /\ memory' = clear(memory)
    \* n: the number of turns the memory had recorded when it was cleared.
    /\ call' = [Called("clear") EXCEPT !.n = memory.engagement_metrics.message_count]
    /\ app_untouched

MemoryInit ==
    /\ conversation_contexts = EmptyDict
    /\ agent_instances = EmptyDict
    /\ conversation_metrics = EmptyDict
    /\ DEBUG_MODE = FALSE
    /\ resets = 0
    /\ llm_failures = 0
    /\ memory \in {NewMemory(FALSE)} \cup {create_agent(h) : h \in Preloads}
    /\ call = Called("none")
    /\ handlers = EmptyDict

MemoryNext ==
    \/ SaveContext
    \/ UpdateUserPreferences
    \/ AddPropertyToHistory
    \/ LogPropertyClick
    \/ LogSearch
    \/ Clear

MemorySpec == MemoryInit /\ [][MemoryNext]_vars

(***************************************************************************)
(* Concurrent handlers.  The Flask server runs each request in a thread of *)
(* its own; the three module-level dicts of app.py are shared.  A handler  *)
(* is cut at the statements that touch them; a statement on a dict entry   *)
(* is atomic (the interpreter lock).  Requests of one sender arrive one    *)
(* after the other, requests of different senders overlap freely.          *)
(***************************************************************************)
OtherSender == "whatsapp:+573000000001"
Senders == {Sender, OtherSender}

\* The k-th message of Sender is UserText(k), that of OtherSender
\* UserText(100 + k): bodies of different senders differ.
MessageNumber(sender, k) == IF sender = Sender THEN k ELSE 100 + k

\* The three dicts of app.py.
World ==
    [contexts |-> conversation_contexts,
     agents |-> agent_instances,
     metrics |-> conversation_metrics]

EmptyWorld == [contexts |-> EmptyDict, agents |-> EmptyDict, metrics |-> EmptyDict]

\* app.py:46-59
register_sender(w, sender) ==
    LET new == sender \notin DOMAIN w.contexts
        contexts0 == IF new THEN Put(w.contexts, sender, <<>>) ELSE w.contexts
        metrics0 == IF new THEN Put(w.metrics, sender, [total_messages |-> 0])
                    ELSE w.metrics
    IN  [w EXCEPT !.contexts = contexts0,
                  !.metrics = [metrics0 EXCEPT ![sender].total_messages = @ + 1]]

\* app.py:66-72
append_user_message(w, sender, n) ==
    [w EXCEPT !.contexts[sender] =
        limit_context(Append(@, [role |-> "user", content |-> UserText(n)]))]

\* Variant: a sender without an agent is given one that exists already.
get_or_share_agent(w, sender) ==
    IF sender \in DOMAIN w.agents THEN w
    ELSE IF DOMAIN w.agents # {}
    THEN [w EXCEPT !.agents =
             Put(@, sender, w.agents[CHOOSE other \in DOMAIN w.agents : TRUE])]
    ELSE [w EXCEPT !.agents = Put(@, sender, create_agent(w.contexts[sender]))]

\* app.py:77-78
get_or_create_agent(w, sender) ==
    IF sender \in DOMAIN w.agents THEN w
    ELSE [w EXCEPT !.agents = Put(@, sender, create_agent(w.contexts[sender]))]

\* app.py:82; run_agent works on the sender's agent and its memory in place.
process_message(w, sender, n, input, llm_ok, summary_ok, trace) ==
    LET r == run_agent(w.agents[sender], n, input, llm_ok, summary_ok, trace)
    IN  [world |-> [w EXCEPT !.agents[sender] = r.memory],
         response |-> response_text(r, n),
         r |-> r]

\* app.py:89-97
append_assistant_message(w, sender, response) ==
    [w EXCEPT !.contexts[sender] =
        Append(@, [role |-> "assistant", content |-> response])]

\* The whole handler, run without interruption.
handle_message(w, sender, n, input, llm_ok, summary_ok, trace) ==
    LET w1 == get_or_create_agent(
                  append_user_message(register_sender(w, sender), sender, n),
                  sender)
        p == process_message(w1, sender, n, input, llm_ok, summary_ok, trace)
    IN  append_assistant_message(p.world, sender, p.response)

\* reset_conversation(user_id), app.py:157-169
reset_user(w, user_id, debug) ==
    IF debug /\ user_id \in DOMAIN w.contexts
    THEN [w EXCEPT !.contexts[user_id] = <<>>,
                   !.agents = Del(@, user_id)]
    ELSE w

\* A request in flight: where its handler stands (pc), the number and the
\* body of its message, the text run_agent returned; and alone, the dicts as
\* they would be had only this sender's requests been served.
IdleHandler(alone) ==
    [pc |-> "idle", n |-> 0, input |-> NoInput, response |-> NoText,
     alone |-> alone]

SetWorld(w) ==
    /\ conversation_contexts' = w.contexts
    /\ agent_instances' = w.agents
    /\ conversation_metrics' = w.metrics

handler_frame == UNCHANGED <<DEBUG_MODE, resets, memory, call>>

Receive(sender) ==
    \E input \in Inputs :
        LET handled == IF sender \in DOMAIN conversation_metrics
                       THEN conversation_metrics[sender].total_messages ELSE 0
        IN  /\ handlers[sender].pc = "idle"
            /\ handled < MaxHandled
            /\ handlers' = [handlers EXCEPT
                    ![sender].pc = "register",
                    ![sender].n = MessageNumber(sender, handled + 1),
                    ![sender].input = input]
            /\ UNCHANGED <<conversation_contexts, agent_instances,
                           conversation_metrics, llm_failures>>
            /\ handler_frame

RegisterSender(sender) ==
    /\ handlers[sender].pc = "register"
    /\ SetWorld(register_sender(World, sender))
    /\ handlers' = [handlers EXCEPT ![sender].pc = "append"]
    /\ UNCHANGED llm_failures
    /\ handler_frame

AppendUserMessage(sender) ==
    /\ handlers[sender].pc = "append"
    /\ SetWorld(append_user_message(World, sender, handlers[sender].n))
    /\ handlers' = [handlers EXCEPT ![sender].pc = "agent"]
    /\ UNCHANGED llm_failures
    /\ handler_frame

GetOrCreateAgent(sender) ==
    /\ handlers[sender].pc = "agent"
    /\ SetWorld(get_or_create_agent(World, sender))
    /\ handlers' = [handlers EXCEPT ![sender].pc = "process"]
    /\ UNCHANGED llm_failures
    /\ handler_frame

ProcessMessage(sender) ==
    \E llm_ok \in BOOLEAN, summary_ok \in BOOLEAN, trace \in Traces :
        LET h == handlers[sender]
        IN  /\ h.pc = "process"
            /\ \E p \in {process_message(World, sender, h.n, h.input,
                                          llm_ok, summary_ok, trace)} :
                   /\ p.r.raised_at = "invoke" => llm_failures < MaxLLMFailures
                   /\ ~p.r.llm_called => llm_ok
                   /\ (~p.r.llm_called \/ p.r.raised_at = "invoke") => trace = <<>>
                   /\ p.r.summarized = "none" => summary_ok
                   /\ SetWorld(p.world)
                   /\ llm_failures' = IF p.r.raised_at = "invoke" THEN llm_failures + 1
                                      ELSE llm_failures
                   /\ handlers' = [handlers EXCEPT
                           ![sender].pc = "reply",
                           ![sender].response = p.response,
                           ![sender].alone =
                               handle_message(h.alone, sender, h.n, h.input,
                                              llm_ok, summary_ok, trace)]
                   /\ handler_frame

AppendAssistantMessage(sender) ==
    /\ handlers[sender].pc = "reply"
    /\ SetWorld(append_assistant_message(World, sender, handlers[sender].response))
    /\ handlers' = [handlers EXCEPT
            ![sender] = IdleHandler(handlers[sender].alone)]
    /\ UNCHANGED llm_failures
    /\ handler_frame

ResetUser(user_id) ==
    /\ handlers[user_id].pc = "idle"
    /\ resets < MaxResets
    /\ resets' = resets + 1
    /\ SetWorld(reset_user(World, user_id, DEBUG_MODE))
    /\ handlers' = [handlers EXCEPT
            ![user_id].alone = reset_user(@, user_id, DEBUG_MODE)]
    /\ UNCHANGED <<DEBUG_MODE, llm_failures, memory, call>>

ConcurrentInit ==
    /\ conversation_contexts = EmptyDict
    /\ agent_instances = EmptyDict
    /\ conversation_metrics = EmptyDict
    /\ DEBUG_MODE \in BOOLEAN
    /\ resets = 0
    /\ llm_failures = 0
    /\ memory = NewMemory(TRUE)
    /\ call = Called("none")
    /\ handlers = [sender \in Senders |-> IdleHandler(EmptyWorld)]

ConcurrentNext ==
    \E sender \in Senders :
        \/ Receive(sender)
        \/ RegisterSender(sender)
        \/ AppendUserMessage(sender)
        \/ GetOrCreateAgent(sender)
        \/ ProcessMessage(sender)
        \/ AppendAssistantMessage(sender)
        \/ ResetUser(sender)

ConcurrentSpec == ConcurrentInit /\ [][ConcurrentNext]_vars

(***************************************************************************)
(* templates.format_whatsapp_message.  A message is the sequence of its    *)
(* characters.                                                             *)
(***************************************************************************)
\* The truncation notice of templates.py:600: 97 characters, written here
\* with a character that occurs in no message.
TruncationNotice == [i \in 1..97 |-> "#"]

\* s[:k] and s[k:] for 0 <= k
Take(s, k) == SubSeq(s, 1, IF k <= Len(s) THEN k ELSE Len(s))

\* s.rfind(sub): the highest 0-based index at which sub occurs in s, or -1
rfind(s, sub) ==
    LET found == {i \in 0..(Len(s) - Len(sub)) :
                     \A j \in 1..Len(sub) : s[i + j] = sub[j]}
    IN  IF found = {} THEN -1
        ELSE CHOOSE i \in found : \A k \in found : k <= i

Max3(a, b, c) == Max(Max(a, b), c)

\* Variant: the message is cut 50 characters before the limit.
templates_format_cutting_late(message) ==
    IF Len(message) > MAX_LENGTH
    THEN LET truncated == Take(message, MAX_LENGTH - 50)
             last_break == Max3(rfind(truncated, <<"\n", "\n">>),
                                rfind(truncated, <<"\n">>),
                                rfind(truncated, <<".", " ">>))
         IN  (IF last_break * 10 > MAX_LENGTH * 7
              THEN Take(truncated, last_break) ELSE truncated)
             \o TruncationNotice
    ELSE message

\* templates.format_whatsapp_message; last_break > MAX_LENGTH * 0.7 in integers
templates_format_whatsapp_message(message) ==
    IF Len(message) > MAX_LENGTH
    THEN LET truncated == Take(message, MAX_LENGTH - 150)
             last_break == Max3(rfind(truncated, <<"\n", "\n">>),
                                rfind(truncated, <<"\n">>),
                                rfind(truncated, <<".", " ">>))
         IN  (IF last_break * 10 > MAX_LENGTH * 7
              THEN Take(truncated, last_break) ELSE truncated)
             \o TruncationNotice
    ELSE message

\* The messages explored: letters, with up to two breaks among them.
Lengths == {50, 4096, 4097, 5000}
BreakPositions == {100, 2867, 2868, 3944, 4050}
Separators == {<<"\n", "\n">>, <<"\n">>, <<".", " ">>}
Breaks == [at : BreakPositions, sep : Separators]
BreakSets ==
    {bs \in SUBSET Breaks :
        /\ Cardinality(bs) <= 2
        /\ \A b, c \in bs : b.at = c.at => b = c}

\* The message of the given length with the given breaks (0-based positions).
MessageWith(length, bs) ==
    [i \in 1..length |->
        IF \E b \in bs : b.at < i /\ i <= b.at + Len(b.sep)
        THEN LET b == CHOOSE c \in bs : c.at < i /\ i <= c.at + Len(c.sep)
             IN  b.sep[i - b.at]
        ELSE "a"]

Messages == {MessageWith(length, bs) : length \in Lengths, bs \in BreakSets}

FormatWhatsappMessage ==
    /\ call.op = "none"
    /\ call' = [Called("format_whatsapp_message") EXCEPT
                    !.args = call.args,
                    !.returned = templates_format_whatsapp_message(call.args.message)]
    /\ app_untouched
    /\ UNCHANGED memory

FormatInit ==
    /\ conversation_contexts = EmptyDict
    /\ agent_instances = EmptyDict
    /\ conversation_metrics = EmptyDict
    /\ DEBUG_MODE = FALSE
    /\ resets = 0
    /\ llm_failures = 0
    /\ memory = NewMemory(FALSE)
    /\ handlers = EmptyDict
    /\ \E message \in Messages :
           call = [Called("none") EXCEPT !.args = [message |-> message]]

FormatNext == FormatWhatsappMessage

FormatSpec == FormatInit /\ [][FormatNext]_vars

(***************************************************************************)
(* search.apply_filters.  Strings are sequences of characters; a list      *)
(* comprehension [p for p in l if test] is SelectSeq(l, test).             *)
(***************************************************************************)
\* str.lower
LowerChar(c) ==
    CASE c = "A" -> "a" [] c = "C" -> "c" [] c = "G" -> "g" [] c = "H" -> "h"
      [] c = "J" -> "j" [] c = "L" -> "l" [] c = "P" -> "p" [] c = "S" -> "s"
      [] OTHER -> c

lower(str) == [i \in 1..Len(str) |-> LowerChar(str[i])]

\* sub in str
Contains(str, sub) == rfind(str, sub) >= 0

\* Variant: without the break, a property is appended once for every
\* requested neighborhood it matches.
RECURSIVE neighborhood_properties_no_break(_, _)
neighborhood_properties_no_break(filtered, neighborhoods) ==
    IF filtered = <<>> THEN <<>>
    ELSE LET p == Head(filtered)
             Matches(neighborhood) ==
                 Contains(lower(p.neighborhood), lower(neighborhood))
         IN  [i \in 1..Len(SelectSeq(neighborhoods, Matches)) |-> p]
             \o neighborhood_properties_no_break(Tail(filtered), neighborhoods)

\* search.py:155-163
neighborhood_properties(filtered, neighborhoods) ==
    LET Test(p) ==
            \E i \in 1..Len(neighborhoods) :
                Contains(lower(p.neighborhood), lower(neighborhoods[i]))
    IN  SelectSeq(filtered, Test)

\* Variant: the title is searched as it is written.
of_property_type_as_written(filtered, property_type) ==
    LET Test(p) == Contains(p.title, property_type)
    IN  SelectSeq(filtered, Test)

\* search.py:169-171
of_property_type(filtered, property_type) ==
    LET Test(p) == Contains(lower(p.title), lower(property_type))
    IN  SelectSeq(filtered, Test)

\* search.py:175-180
amenity_properties(filtered, amenities) ==
    LET Test(p) ==
            /\ "amenities" \in DOMAIN p
            /\ \E i \in 1..Len(amenities) :
                   \E j \in 1..Len(p.amenities) :
                       amenities[i] = lower(p.amenities[j])
    IN  SelectSeq(filtered, Test)

\* Variant: the amenity filter is applied even when nothing matches.
with_amenities_hard(filtered, amenities) ==
    amenity_properties(filtered, amenities)

\* search.py:173-184
with_amenities(filtered, amenities) ==
    IF amenity_properties(filtered, amenities) # <<>>
    THEN amenity_properties(filtered, amenities)
    ELSE filtered

\* apply_filters(properties, filters)
apply_filters(properties, filters) ==
    LET MinPrice(p) == p.price >= filters.min_price
        MaxPrice(p) == p.price <= filters.max_price
        MinBedrooms(p) == p.bedrooms >= filters.min_bedrooms
        MinBathrooms(p) == p.bathrooms >= filters.min_bathrooms
        MinArea(p) == p.area >= filters.min_area
        f0 == properties
        f1 == IF "min_price" \in DOMAIN filters THEN SelectSeq(f0, MinPrice) ELSE f0
        f2 == IF "max_price" \in DOMAIN filters THEN SelectSeq(f1, MaxPrice) ELSE f1
        f3 == IF "min_bedrooms" \in DOMAIN filters THEN SelectSeq(f2, MinBedrooms) ELSE f2
        f4 == IF "min_bathrooms" \in DOMAIN filters THEN SelectSeq(f3, MinBathrooms) ELSE f3
        f5 == IF "min_area" \in DOMAIN filters THEN SelectSeq(f4, MinArea) ELSE f4
        f6 == IF "neighborhoods" \in DOMAIN filters
              THEN neighborhood_properties(f5, filters.neighborhoods) ELSE f5
        f7 == IF "property_type" \in DOMAIN filters
              THEN of_property_type(f6, filters.property_type) ELSE f6
    IN  IF "amenities" \in DOMAIN filters
        THEN with_amenities(f7, filters.amenities) ELSE f7

\* The catalog the property lists are drawn from: records as in
\* data/sample_properties.json, one without an amenities key, one with an empty
\* amenities list.
Catalog ==
    { [id |-> "p1", price |-> 300, bedrooms |-> 2, bathrooms |-> 1, area |-> 60,
       neighborhood |-> <<"C", "h", " ", "A", "l">>, title |-> <<"A", "p", "t", "o">>,
       amenities |-> << <<"P", "i">>, <<"G", "y">> >>],
      [id |-> "p2", price |-> 500, bedrooms |-> 3, bathrooms |-> 2, area |-> 90,
       neighborhood |-> <<"E", "l", " ", "P", "o">>, title |-> <<"C", "a", "s", "a">>,
       amenities |-> << <<"J", "a">> >>],
      [id |-> "p3", price |-> 450, bedrooms |-> 3, bathrooms |-> 2, area |-> 80,
       neighborhood |-> <<"c", "h">>, title |-> <<"L", "a", " ", "c", "a", "s", "a">>],
      [id |-> "p4", price |-> 450, bedrooms |-> 2, bathrooms |-> 2, area |-> 100,
       neighborhood |-> <<"P", "o">>, title |-> <<"a", "p", "t", "o">>,
       amenities |-> <<>>] }

PropertyLists == UNION {[1..n -> Catalog] : n \in 0..MaxProperties}

\* The filter sets extract_filters builds: every key optional, the strings in
\* lower case.
NumericFilters ==
    { EmptyDict,
      [k \in {"min_price"} |-> 400],
      [k \in {"max_price"} |-> 450],
      [k \in {"min_price", "max_price", "min_bedrooms"} |->
          IF k = "min_price" THEN 400 ELSE IF k = "max_price" THEN 450 ELSE 3],
      [k \in {"min_bedrooms"} |-> 3],
      [k \in {"min_bathrooms"} |-> 2],
      [k \in {"min_area"} |-> 80] }

NeighborhoodFilters ==
    { EmptyDict,
      [k \in {"neighborhoods"} |-> << <<"p", "o">> >>],
      [k \in {"neighborhoods"} |-> << <<"c", "h">>, <<"a", "l">> >>] }

PropertyTypeFilters ==
    { EmptyDict, [k \in {"property_type"} |-> <<"c", "a", "s", "a">>] }

AmenityFilters ==
    { EmptyDict,
      [k \in {"amenities"} |-> << <<"p", "i">> >>],
      [k \in {"amenities"} |-> << <<"s", "e">>, <<"j", "a">> >>] }

FilterSets ==
    {DictUpdate(DictUpdate(DictUpdate(a, b), c), d) :
        a \in NumericFilters, b \in NeighborhoodFilters,
        c \in PropertyTypeFilters, d \in AmenityFilters}

\* The hard filters in the order apply_filters applies them, and the field
\* of a property each of them subscripts (p['price'], ...).
FilterKeys ==
    <<"min_price", "max_price", "min_bedrooms", "min_bathrooms", "min_area",
      "neighborhoods", "property_type">>

FieldOf(key) ==
    CASE key \in {"min_price", "max_price"} -> "price"
      [] key = "min_bedrooms" -> "bedrooms"
      [] key = "min_bathrooms" -> "bathrooms"
      [] key = "min_area" -> "area"
      [] key = "neighborhoods" -> "neighborhood"
      [] key = "property_type" -> "title"

\* p[field] raises KeyError
RaisesKeyError(p, field) == field \notin DOMAIN p

\* The first filter whose comprehension raises KeyError, "none" if there is
\* none: the filter subscripts every property that survived the filters
\* before it (done).
RECURSIVE key_error(_, _, _, _)
key_error(properties, filters, keys, done) ==
    IF keys = <<>> THEN "none"
    ELSE IF Head(keys) \notin DOMAIN filters
    THEN key_error(properties, filters, Tail(keys), done)
    ELSE LET survivors ==
                 apply_filters(properties,
                               [k \in (DOMAIN filters) \cap done |-> filters[k]])
         IN  IF \E i \in 1..Len(survivors) :
                    RaisesKeyError(survivors[i], FieldOf(Head(keys)))
             THEN Head(keys)
             ELSE key_error(properties, filters, Tail(keys),
                            done \cup {Head(keys)})

\* apply_filters has no try block: result is "KeyError" when a subscript
\* raised, "returned" otherwise.
ApplyFilters ==
    /\ call.op = "none"
    /\ LET raised == key_error(call.args.properties, call.args.filters,
                               FilterKeys, {}) # "none"
       IN  call' = [Called("apply_filters") EXCEPT
                       !.args = call.args,
                       !.result = IF raised THEN "KeyError" ELSE "returned",
                       !.returned = IF raised THEN <<>>
                                    ELSE apply_filters(call.args.properties,
                                                       call.args.filters)]
    /\ app_untouched
    /\ UNCHANGED memory

\* apply_filters on the list the first call returned, with the same filters.
ApplyFiltersAgain ==
    /\ call.op = "apply_filters"
    /\ call.result = "returned"
    /\ call' = [Called("apply_filters_again") EXCEPT
                    !.args = [properties |-> call.returned,
                              filters |-> call.args.filters],
                    !.returned = apply_filters(call.returned, call.args.filters)]
    /\ app_untouched
    /\ UNCHANGED memory

FilterInit ==
    /\ conversation_contexts = EmptyDict
    /\ agent_instances = EmptyDict
    /\ conversation_metrics = EmptyDict
    /\ DEBUG_MODE = FALSE
    /\ resets = 0
    /\ llm_failures = 0
    /\ memory = NewMemory(FALSE)
    /\ handlers = EmptyDict
    /\ \E properties \in PropertyLists, filters \in FilterSets :
           call = [Called("none") EXCEPT
                      !.args = [properties |-> properties, filters |-> filters]]

FilterNext == ApplyFilters \/ ApplyFiltersAgain

FilterSpec == FilterInit /\ [][FilterNext]_vars

\* Records that lack one of the fields the filters subscript.
Complete ==
    [id |-> "p2", price |-> 500, bedrooms |-> 3, bathrooms |-> 2, area |-> 90,
     neighborhood |-> <<"E", "l", " ", "P", "o">>, title |-> <<"C", "a", "s", "a">>,
     amenities |-> << <<"J", "a">> >>]

Without(p, field) == [k \in (DOMAIN p) \ {field} |-> p[k]]

Records ==
    {Complete}
    \cup {Without(Complete, field) :
             field \in {"price", "bedrooms", "bathrooms", "area",
                        "neighborhood", "title"}}
    \cup {[id |-> "p1", price |-> 300, bedrooms |-> 2, bathrooms |-> 1, area |-> 60,
           neighborhood |-> <<"C", "h">>, title |-> <<"A", "p", "t", "o">>]}

RecordLists == UNION {[1..n -> Records] : n \in 0..MaxRecords}

RecordInit ==
    /\ conversation_contexts = EmptyDict
    /\ agent_instances = EmptyDict
    /\ conversation_metrics = EmptyDict
    /\ DEBUG_MODE = FALSE
    /\ resets = 0
    /\ llm_failures = 0
    /\ memory = NewMemory(FALSE)
    /\ handlers = EmptyDict
    /\ \E properties \in RecordLists, filters \in FilterSets :
           call = [Called("none") EXCEPT
                      !.args = [properties |-> properties, filters |-> filters]]

RecordNext == ApplyFilters \/ ApplyFiltersAgain

RecordSpec == RecordInit /\ [][RecordNext]_vars

(***************************************************************************)
(* search.rank_properties                                                  *)
(***************************************************************************)
\* f"{prop['title']} {prop['neighborhood']} {prop['description']}".lower()
property_text(prop) ==
    lower(prop.title \o <<" ">> \o prop.neighborhood \o <<" ">> \o prop.description)

\* prop['_score'] as search.py:211-227 computes it, in units of
\* 1 / (10 * len(query_words)), of 1 / 10 when there are no query words:
\* matching_words / len(query_words), 0.5 for every query word found in the
\* neighborhood, 0.1 for every amenity up to 0.5.
score(prop, query_words) ==
    LET unit == IF query_words = {} THEN 1 ELSE Cardinality(query_words)
        matching_words ==
            Cardinality({word \in query_words : Contains(property_text(prop), word)})
        in_neighborhood ==
            Cardinality({word \in query_words :
                            Contains(lower(prop.neighborhood), word)})
        amenities == IF "amenities" \in DOMAIN prop THEN Len(prop.amenities) ELSE 0
    IN  10 * matching_words
        + 5 * unit * in_neighborhood
        + unit * (IF amenities < 5 THEN amenities ELSE 5)

\* The loop of search.py:209-227: every property gets its _score.
scored(properties, query_words) ==
    [i \in 1..Len(properties) |->
        [k \in (DOMAIN properties[i]) \cup {"_score"} |->
            IF k = "_score" THEN score(properties[i], query_words)
            ELSE properties[i][k]]]

\* Variant: a property goes in front of those with the same score.
RECURSIVE sorted_unstable(_)
sorted_unstable(properties) ==
    IF properties = <<>> THEN <<>>
    ELSE LET rest == sorted_unstable(SubSeq(properties, 1, Len(properties) - 1))
             last == properties[Len(properties)]
             ahead == Cardinality({i \in 1..Len(rest) : rest[i]._score > last._score})
         IN  SubSeq(rest, 1, ahead) \o <<last>> \o SubSeq(rest, ahead + 1, Len(rest))

\* sorted(properties, key=lambda p: p.get('_score', 0), reverse=True): a stable
\* sort; each property goes behind those with a score at least its own.
RECURSIVE sorted_by_score(_)
sorted_by_score(properties) ==
    IF properties = <<>> THEN <<>>
    ELSE LET rest == sorted_by_score(SubSeq(properties, 1, Len(properties) - 1))
             last == properties[Len(properties)]
             ahead == Cardinality({i \in 1..Len(rest) : rest[i]._score >= last._score})
         IN  SubSeq(rest, 1, ahead) \o <<last>> \o SubSeq(rest, ahead + 1, Len(rest))

\* rank_properties(properties, query), query_words = set(query.lower().split())
rank_properties(properties, query_words) ==
    IF Len(properties) < 2 THEN properties
    ELSE sorted_by_score(scored(properties, query_words))

\* The catalog with descriptions.
description_of(p) ==
    IF p.id \in {"p1", "p3"} THEN <<"g", "y", " ", "p", "o">> ELSE <<"x">>

RankCatalog ==
    {[k \in (DOMAIN p) \cup {"description"} |->
         IF k = "description" THEN description_of(p) ELSE p[k]] : p \in Catalog}

RankLists == UNION {[1..n -> RankCatalog] : n \in 0..MaxRanked}

QueryWords ==
    { {},
      {<<"c", "a", "s", "a">>},
      {<<"p", "o">>, <<"c", "a", "s", "a">>},
      {<<"c", "h">>, <<"g", "y">>, <<"z">>} }

RankProperties ==
    /\ call.op = "none"
    /\ call' = [Called("rank_properties") EXCEPT
                    !.args = call.args,
                    !.returned = rank_properties(call.args.properties,
                                                 call.args.query_words)]
    /\ app_untouched
    /\ UNCHANGED memory

RankInit ==
    /\ conversation_contexts = EmptyDict
    /\ agent_instances = EmptyDict
    /\ conversation_metrics = EmptyDict
    /\ DEBUG_MODE = FALSE
    /\ resets = 0
    /\ llm_failures = 0
    /\ memory = NewMemory(FALSE)
    /\ handlers = EmptyDict
    /\ \E properties \in RankLists, query_words \in QueryWords :
           call = [Called("none") EXCEPT
                      !.args = [properties |-> properties,
                                query_words |-> query_words]]

RankNext == RankProperties

RankSpec == RankInit /\ [][RankNext]_vars

(***************************************************************************)
(* search.extract_filters and the budget part of                           *)
(* agent.extract_client_preferences.  A query is the sequence of its       *)
(* whitespace-separated tokens; a token is a run of digits (number >= 0)   *)
(* or a word (a sequence of characters).  The patterns are unanchored, so  *)
(* a literal at the start of a pattern matches the end of a word and a     *)
(* literal at its end matches the start of a word.                         *)
(***************************************************************************)
\* The literals of the patterns and of the queries.
str_millones == <<"m", "i", "l", "l", "o", "n", "e", "s">>
str_millon == <<"m", "i", "l", "l", "o", "n">>
str_m == <<"m">>
str_entre == <<"e", "n", "t", "r", "e">>
str_y == <<"y">>
str_habitaciones == <<"h", "a", "b", "i", "t", "a", "c", "i", "o", "n", "e", "s">>
str_hab == <<"h", "a", "b">>
str_cuartos == <<"c", "u", "a", "r", "t", "o", "s">>
str_recamaras == <<"r", "e", "c", "á", "m", "a", "r", "a", "s">>
str_banos == <<"b", "a", "ñ", "o", "s">>
str_bano == <<"b", "a", "ñ", "o">>
str_m2 == <<"m", "2">>
str_metros == <<"m", "e", "t", "r", "o", "s">>
str_m2_superscript == <<"m", "²">>
str_chapinero == <<"c", "h", "a", "p", "i", "n", "e", "r", "o">>
str_poblado == <<"p", "o", "b", "l", "a", "d", "o">>
str_suba == <<"s", "u", "b", "a">>
str_piscina == <<"p", "i", "s", "c", "i", "n", "a">>
str_gimnasio == <<"g", "i", "m", "n", "a", "s", "i", "o">>
str_gym == <<"g", "y", "m">>
str_apartamento == <<"a", "p", "a", "r", "t", "a", "m", "e", "n", "t", "o">>
str_apto == <<"a", "p", "t", "o">>
str_apartamentos == <<"a", "p", "a", "r", "t", "a", "m", "e", "n", "t", "o", "s">>
str_casa == <<"c", "a", "s", "a">>
str_casas == <<"c", "a", "s", "a", "s">>
str_hasta == <<"h", "a", "s", "t", "a">>
str_maximo == <<"m", "a", "x", "i", "m", "o">>
str_maximo_accented == <<"m", "á", "x", "i", "m", "o">>
str_desde == <<"d", "e", "s", "d", "e">>
str_minimo == <<"m", "i", "n", "i", "m", "o">>
str_minimo_accented == <<"m", "í", "n", "i", "m", "o">>
str_presupuesto == <<"p", "r", "e", "s", "u", "p", "u", "e", "s", "t", "o">>
str_Casa == <<"C", "a", "s", "a">>
str_en == <<"e", "n">>
str_con == <<"c", "o", "n">>
str_hola == <<"h", "o", "l", "a">>

Word(chars) == [word |-> chars, number |-> -1]
Number(n) == [word |-> <<>>, number |-> n]

\* \d+
digits(token) == token.number >= 0

StartsWith(str, prefix) ==
    Len(prefix) <= Len(str) /\ SubSeq(str, 1, Len(prefix)) = prefix

EndsWith(str, suffix) ==
    /\ Len(suffix) <= Len(str)
    /\ SubSeq(str, Len(str) - Len(suffix) + 1, Len(str)) = suffix

\* a word at position i that starts with one of the alternatives
starts_with_any(query, i, alternatives) ==
    /\ i \in 1..Len(query)
    /\ ~digits(query[i])
    /\ \E a \in alternatives : StartsWith(query[i].word, a)

\* a word at position i that ends with one of the alternatives
ends_with_any(query, i, alternatives) ==
    /\ i \in 1..Len(query)
    /\ ~digits(query[i])
    /\ \E a \in alternatives : EndsWith(query[i].word, a)

number_at(query, i) == i \in 1..Len(query) /\ digits(query[i])

\* re.search: the leftmost match, 0 for None
leftmost(positions) ==
    IF positions = {} THEN 0
    ELSE CHOOSE i \in positions : \A j \in positions : i <= j

\* int(float(price_str) * 1_000_000)
pesos(millions) == millions * 1000000

\* (\d+[\d.,]*)\s*(?:millones|millon|m)
price_units == {str_millones, str_millon, str_m}

price_match(query) ==
    leftmost({i \in 1..Len(query) :
                 number_at(query, i) /\ starts_with_any(query, i + 1, price_units)})

\* entre\s*(\d+[\d.,]*)\s*y\s*(\d+[\d.,]*)\s*(?:millones|millon|m)
price_range_match(query) ==
    leftmost({i \in 1..Len(query) :
                 /\ ends_with_any(query, i, {str_entre})
                 /\ number_at(query, i + 1)
                 /\ i + 2 <= Len(query) /\ query[i + 2] = Word(str_y)
                 /\ number_at(query, i + 3)
                 /\ starts_with_any(query, i + 4, price_units)})

\* (\d+)\s*(?:habitaciones|hab|habitación|cuartos|recámaras)
bedrooms_match(query) ==
    leftmost({i \in 1..Len(query) :
                 /\ number_at(query, i)
                 /\ starts_with_any(query, i + 1,
                                    {str_habitaciones, str_hab, str_cuartos, str_recamaras})})

\* (\d+)\s*(?:baños|baño)
bathrooms_match(query) ==
    leftmost({i \in 1..Len(query) :
                 number_at(query, i) /\ starts_with_any(query, i + 1, {str_banos, str_bano})})

\* (\d+)\s*(?:m2|metros cuadrados|metros|m²)
area_match(query) ==
    leftmost({i \in 1..Len(query) :
                 /\ number_at(query, i)
                 /\ starts_with_any(query, i + 1, {str_m2, str_metros, str_m2_superscript})})

\* \b(?:...)\b
has_word(query, words) ==
    \E i \in 1..Len(query) : ~digits(query[i]) /\ query[i].word \in words

\* some of the one-word entries of the two lists, in the order of the source
neighborhood_names == <<str_chapinero, str_poblado, str_suba>>
amenity_names == <<str_piscina, str_gimnasio, str_gym>>

\* [name for name in names if name in normalized_query]
found_in(query, names) ==
    LET Found(name) ==
            \E i \in 1..Len(query) :
                ~digits(query[i]) /\ Contains(query[i].word, name)
    IN  SelectSeq(names, Found)

\* search.py:52-126
extract_filters(query) ==
    LET normalized_query ==
            [i \in 1..Len(query) |-> [query[i] EXCEPT !.word = lower(@)]]
        price == price_match(normalized_query)
        priced ==
            IF price > 0
            THEN Put(EmptyDict, "max_price", pesos(normalized_query[price].number))
            ELSE EmptyDict
        price_range == price_range_match(normalized_query)
        ranged ==
            IF price_range > 0
            THEN Put(Put(priced, "min_price",
                         pesos(normalized_query[price_range + 1].number)),
                     "max_price", pesos(normalized_query[price_range + 3].number))
            ELSE priced
        bedrooms == bedrooms_match(normalized_query)
        with_bedrooms ==
            IF bedrooms > 0
            THEN Put(ranged, "min_bedrooms", normalized_query[bedrooms].number)
            ELSE ranged
        bathrooms == bathrooms_match(normalized_query)
        with_bathrooms ==
            IF bathrooms > 0
            THEN Put(with_bedrooms, "min_bathrooms",
                     normalized_query[bathrooms].number)
            ELSE with_bedrooms
        area == area_match(normalized_query)
        with_area ==
            IF area > 0
            THEN Put(with_bathrooms, "min_area", normalized_query[area].number)
            ELSE with_bathrooms
        with_type ==
            IF has_word(normalized_query, {str_apartamento, str_apto, str_apartamentos})
            THEN Put(with_area, "property_type", str_apartamento)
            ELSE IF has_word(normalized_query, {str_casa, str_casas})
            THEN Put(with_area, "property_type", str_casa)
            ELSE with_area
        found_neighborhoods == found_in(normalized_query, neighborhood_names)
        with_neighborhoods ==
            IF found_neighborhoods # <<>>
            THEN Put(with_type, "neighborhoods", found_neighborhoods)
            ELSE with_type
        found_amenities == found_in(normalized_query, amenity_names)
    IN  IF found_amenities # <<>>
        THEN Put(with_neighborhoods, "amenities", found_amenities)
        ELSE with_neighborhoods

\* agent.py:194-213: the budget keys of the preferences; a key that is
\* absent is None.
\* entre\s*(\d+)[\s,]*y\s*(\d+)\s*millones
budget_range_match(text) ==
    leftmost({i \in 1..Len(text) :
                 /\ ends_with_any(text, i, {str_entre})
                 /\ number_at(text, i + 1)
                 /\ i + 2 <= Len(text) /\ text[i + 2] = Word(str_y)
                 /\ number_at(text, i + 3)
                 /\ starts_with_any(text, i + 4, {str_millones})})

\* (hasta|maximo|máximo)\s*(\d+)\s*millones
max_budget_match(text) ==
    leftmost({i \in 1..Len(text) :
                 /\ ends_with_any(text, i, {str_hasta, str_maximo, str_maximo_accented})
                 /\ number_at(text, i + 1)
                 /\ starts_with_any(text, i + 2, {str_millones})})

\* (desde|minimo|mínimo)\s*(\d+)\s*millones
min_budget_match(text) ==
    leftmost({i \in 1..Len(text) :
                 /\ ends_with_any(text, i, {str_desde, str_minimo, str_minimo_accented})
                 /\ number_at(text, i + 1)
                 /\ starts_with_any(text, i + 2, {str_millones})})

\* (\d+)\s*millones
single_budget_match(text) ==
    leftmost({i \in 1..Len(text) :
                 number_at(text, i) /\ starts_with_any(text, i + 1, {str_millones})})

extract_budget(query) ==
    LET conversation_text ==
            [i \in 1..Len(query) |-> [query[i] EXCEPT !.word = lower(@)]]
        budget_range == budget_range_match(conversation_text)
        max_budget == max_budget_match(conversation_text)
        with_max ==
            IF max_budget > 0
            THEN Put(EmptyDict, "budget_max",
                     conversation_text[max_budget + 1].number * 1000000)
            ELSE EmptyDict
        min_budget == min_budget_match(conversation_text)
        with_min ==
            IF min_budget > 0
            THEN Put(with_max, "budget_min",
                     conversation_text[min_budget + 1].number * 1000000)
            ELSE with_max
        single_budget == single_budget_match(conversation_text)
    IN  IF budget_range > 0
        THEN Put(Put(EmptyDict, "budget_min",
                     conversation_text[budget_range + 1].number * 1000000),
                 "budget_max", conversation_text[budget_range + 3].number * 1000000)
        ELSE IF single_budget > 0 /\ "budget_max" \notin DOMAIN with_min
        THEN Put(with_min, "budget_max",
                 conversation_text[single_budget].number * 1000000)
        ELSE with_min

\* The phrases the queries are made of.
Phrases ==
    { <<Word(str_entre), Number(300), Word(str_y), Number(600), Word(str_millones)>>,
      <<Word(str_hasta), Number(500), Word(str_millones)>>,
      <<Word(str_desde), Number(300), Word(str_millones)>>,
      <<Word(str_presupuesto), Number(450), Word(str_millones)>>,
      <<Number(80), Word(str_m2)>>,
      <<Number(80), Word(str_metros)>>,
      <<Number(2), Word(str_habitaciones)>>,
      <<Number(2), Word(str_banos)>>,
      <<Word(str_Casa)>>,
      <<Word(str_apartamento)>>,
      <<Word(str_en), Word(str_chapinero)>>,
      <<Word(str_con), Word(str_piscina)>>,
      <<Word(str_hola)>> }

RECURSIVE QueriesOf(_)
QueriesOf(n) ==
    IF n = 0 THEN {<<>>}
    ELSE QueriesOf(n - 1) \cup {q \o p : q \in QueriesOf(n - 1), p \in Phrases}

Queries == QueriesOf(MaxPhrases)

ExtractFilters ==
    /\ call.op = "none"
    /\ call' = [Called("extract_filters") EXCEPT
                    !.args = call.args,
                    !.returned = extract_filters(call.args.query)]
    /\ app_untouched
    /\ UNCHANGED memory

ExtractClientPreferences ==
    /\ call.op = "none"
    /\ call' = [Called("extract_client_preferences") EXCEPT
                    !.args = call.args,
                    !.returned = extract_budget(call.args.query)]
    /\ app_untouched
    /\ UNCHANGED memory

ExtractInit ==
    /\ conversation_contexts = EmptyDict
    /\ agent_instances = EmptyDict
    /\ conversation_metrics = EmptyDict
    /\ DEBUG_MODE = FALSE
    /\ resets = 0
    /\ llm_failures = 0
    /\ memory = NewMemory(FALSE)
    /\ handlers = EmptyDict
    /\ \E query \in Queries : call = [Called("none") EXCEPT !.args = [query |-> query]]

ExtractNext == ExtractFilters \/ ExtractClientPreferences

ExtractSpec == ExtractInit /\ [][ExtractNext]_vars

(***************************************************************************)
(* templates.add_line_breaks.  A text is a sequence of characters.         *)
(***************************************************************************)
whitespace == {" ", "\n"}

\* str.split(): the maximal runs of non-whitespace characters
RECURSIVE split_from(_, _, _)
split_from(text, i, word) ==
    IF i > Len(text) THEN IF word = <<>> THEN <<>> ELSE <<word>>
    ELSE IF text[i] \in whitespace
    THEN (IF word = <<>> THEN <<>> ELSE <<word>>) \o split_from(text, i + 1, <<>>)
    ELSE split_from(text, i + 1, Append(word, text[i]))

split(text) == split_from(text, 1, <<>>)

\* sep.join(strings)
RECURSIVE join(_, _)
join(sep, strings) ==
    IF strings = <<>> THEN <<>>
    ELSE IF Len(strings) = 1 THEN strings[1]
    ELSE strings[1] \o sep \o join(sep, Tail(strings))

\* Variant: the spaces between the words of a line are not counted.
RECURSIVE lines_of_unspaced(_, _, _, _, _)
lines_of_unspaced(words, max_line_length, lines, current_line, current_length) ==
    IF words = <<>>
    THEN IF current_line # <<>>
         THEN Append(lines, join(<<" ">>, current_line))
         ELSE lines
    ELSE LET word == Head(words)
             word_length == Len(word)
         IN  IF current_length + word_length > max_line_length
             THEN lines_of_unspaced(
                      Tail(words), max_line_length,
                      Append(lines, join(<<" ">>, current_line)),
                      <<word>>, word_length)
             ELSE lines_of_unspaced(
                      Tail(words), max_line_length, lines,
                      Append(current_line, word), current_length + word_length)

\* templates.py:150-170: the loop over the words and the last line
RECURSIVE lines_of(_, _, _, _, _)
lines_of(words, max_line_length, lines, current_line, current_length) ==
    IF words = <<>>
    THEN IF current_line # <<>>
         THEN Append(lines, join(<<" ">>, current_line))
         ELSE lines
    ELSE LET word == Head(words)
             word_length == Len(word)
         IN  IF current_length + word_length + Len(current_line) > max_line_length
             THEN lines_of(Tail(words), max_line_length,
                           Append(lines, join(<<" ">>, current_line)),
                           <<word>>, word_length)
             ELSE lines_of(Tail(words), max_line_length, lines,
                           Append(current_line, word), current_length + word_length)

add_line_breaks(text, max_line_length) ==
    IF text = <<>> \/ Len(text) <= max_line_length THEN text
    ELSE join(<<"\n">>, lines_of(split(text), max_line_length, <<>>, <<>>, 0))

Characters == {"a", "b", " ", "\n"}
Texts == UNION {[1..n -> Characters] : n \in 0..MaxText}
LineLengths == 1..MaxLineLength

AddLineBreaks ==
    /\ call.op = "none"
    /\ call' = [Called("add_line_breaks") EXCEPT
                    !.args = call.args,
                    !.returned = add_line_breaks(call.args.text,
                                                 call.args.max_line_length)]
    /\ app_untouched
    /\ UNCHANGED memory

BreakInit ==
    /\ conversation_contexts = EmptyDict
    /\ agent_instances = EmptyDict
    /\ conversation_metrics = EmptyDict
    /\ DEBUG_MODE = FALSE
    /\ resets = 0
    /\ llm_failures = 0
    /\ memory = NewMemory(FALSE)
    /\ handlers = EmptyDict
    /\ \E text \in Texts, max_line_length \in LineLengths :
           call = [Called("none") EXCEPT
                      !.args = [text |-> text,
                                max_line_length |-> max_line_length]]

BreakNext == AddLineBreaks

BreakSpec == BreakInit /\ [][BreakNext]_vars

(***************************************************************************)
(* templates: the property renderers.  A rendered text is the record of    *)
(* the values interpolated into it, tagged with the template it comes      *)
(* from; format_price(price) and truncate_text(description) are shown by   *)
(* their arguments.                                                        *)
(***************************************************************************)
\* the first of the subscripts property_data[field] that raises KeyError,
\* "none" when all succeed
RECURSIVE first_missing(_, _)
first_missing(property_data, fields) ==
    IF fields = <<>> THEN "none"
    ELSE IF Head(fields) \notin DOMAIN property_data THEN Head(fields)
    ELSE first_missing(property_data, Tail(fields))

\* dict.get(key, default)
Get(d, key, default) == IF key \in DOMAIN d THEN d[key] ELSE default

\* f"Error: Falta información de la propiedad: {str(e)}"
error_text(field) == [template |-> "error", missing |-> field]

\* templates.py:200-256
format_property_card(property_data, detailed) ==
    LET missing ==
            first_missing(property_data,
                          <<"price", "title", "bedrooms", "bathrooms", "area",
                            "description", "url">>)
    IN  IF missing # "none" THEN error_text(missing)
        ELSE [template |-> "card",
              detailed |-> detailed,
              title |-> property_data.title,
              id |-> Get(property_data, "id", "N/A"),
              price |-> property_data.price,
              bedrooms |-> property_data.bedrooms,
              bathrooms |-> property_data.bathrooms,
              area |-> property_data.area,
              neighborhood |-> Get(property_data, "neighborhood", <<>>),
              amenities |-> Get(property_data, "amenities", <<>>),
              description |-> property_data.description,
              url |-> property_data.url]

\* Variant: the brief also shows the bathrooms.
format_property_brief_with_bathrooms(property_data, index) ==
    LET missing ==
            first_missing(property_data,
                          <<"price", "title", "bedrooms", "bathrooms", "area",
                            "description", "url">>)
    IN  IF missing # "none" THEN error_text(missing)
        ELSE [template |-> "brief",
              index |-> index,
              title |-> property_data.title,
              price |-> property_data.price,
              bedrooms |-> property_data.bedrooms,
              area |-> property_data.area,
              neighborhood |-> Get(property_data, "neighborhood", <<>>),
              description |-> property_data.description,
              amenities |-> Take(Get(property_data, "amenities", <<>>), 3),
              url |-> property_data.url]

\* templates.py:258-295; index 0 is None
format_property_brief(property_data, index) ==
    LET missing ==
            first_missing(property_data,
                          <<"price", "title", "bedrooms", "area", "description",
                            "url">>)
    IN  IF missing # "none" THEN error_text(missing)
        ELSE [template |-> "brief",
              index |-> index,
              title |-> property_data.title,
              price |-> property_data.price,
              bedrooms |-> property_data.bedrooms,
              area |-> property_data.area,
              neighborhood |-> Get(property_data, "neighborhood", <<>>),
              description |-> property_data.description,
              amenities |-> Take(Get(property_data, "amenities", <<>>), 3),
              url |-> property_data.url]

\* "No encontré propiedades que coincidan con tus criterios. ..."
no_properties_text == [template |-> "none"]

\* Variant: the list is cut before it is counted.
format_property_list_counting_shown(properties, max_properties) ==
    IF properties = <<>> THEN no_properties_text
    ELSE LET shown == Take(properties, max_properties)
         IN  [template |-> "list",
              total_count |-> Len(shown),
              entries |-> [i \in 1..Len(shown) |-> format_property_brief(shown[i], i)],
              more |-> 0]

\* templates.py:367-404; more = 0 when the note is absent
format_property_list(properties, max_properties) ==
    IF properties = <<>> THEN no_properties_text
    ELSE LET total_count == Len(properties)
             shown == Take(properties, max_properties)
         IN  [template |-> "list",
              total_count |-> total_count,
              entries |-> [i \in 1..Len(shown) |-> format_property_brief(shown[i], i)],
              more |-> IF total_count > max_properties
                       THEN total_count - max_properties ELSE 0]

\* The subscript of a loop `for prop in properties: ... prop[field] ...`
\* that raises first: the field, "none" when no subscript raises.
loop_missing(properties, field) ==
    IF \E i \in 1..Len(properties) : field \notin DOMAIN properties[i]
    THEN field ELSE "none"

RECURSIVE loops_missing(_, _)
loops_missing(properties, fields) ==
    IF fields = <<>> THEN "none"
    ELSE IF loop_missing(properties, Head(fields)) # "none" THEN Head(fields)
    ELSE loops_missing(properties, Tail(fields))

\* templates.py:297-365: KeyError raised by format_property_comparison
comparison_key_error(properties, max_properties) ==
    IF Len(properties) < 2 THEN "none"
    ELSE loops_missing(Take(properties, max_properties),
                       <<"title", "price", "bedrooms", "bathrooms", "area", "url">>)

\* "Se necesitan al menos 2 propiedades para hacer una comparación."
format_property_comparison(properties, max_properties) ==
    IF Len(properties) < 2 THEN [template |-> "two_needed"]
    ELSE LET compared == Take(properties, max_properties)
         IN  [template |-> "comparison",
              titles |-> [i \in 1..Len(compared) |-> compared[i].title],
              prices |-> [i \in 1..Len(compared) |-> compared[i].price],
              bedrooms |-> [i \in 1..Len(compared) |-> compared[i].bedrooms],
              bathrooms |-> [i \in 1..Len(compared) |-> compared[i].bathrooms],
              areas |-> [i \in 1..Len(compared) |-> compared[i].area],
              neighborhoods |->
                  [i \in 1..Len(compared) |-> Get(compared[i], "neighborhood", <<>>)],
              urls |-> [i \in 1..Len(compared) |-> compared[i].url]]

\* templates.py:406-447: KeyError raised by format_property_gallery, which
\* subscripts prop['price'] and then prop['url'] of one property after the
\* other
RECURSIVE gallery_key_error(_, _)
gallery_key_error(properties, max_properties) ==
    IF properties = <<>> \/ max_properties <= 0 THEN "none"
    ELSE IF first_missing(Head(properties), <<"price", "url">>) # "none"
    THEN first_missing(Head(properties), <<"price", "url">>)
    ELSE gallery_key_error(Tail(properties), max_properties - 1)

format_property_gallery(properties, max_properties) ==
    IF properties = <<>> THEN no_properties_text
    ELSE LET total_count == Len(properties)
             shown == Take(properties, max_properties)
         IN  [template |-> "gallery",
              total_count |-> total_count,
              entries |->
                  [i \in 1..Len(shown) |->
                      [index |-> i,
                       title |-> Get(shown[i], "title", <<>>),
                       price |-> shown[i].price,
                       bedrooms |-> Get(shown[i], "bedrooms", 0),
                       area |-> Get(shown[i], "area", 0),
                       neighborhood |-> Get(shown[i], "neighborhood", <<>>),
                       url |-> shown[i].url]],
              more |-> IF total_count > max_properties
                       THEN total_count - max_properties ELSE 0]

\* The records handed to the renderers: two complete ones, and the first
\* without one or two of its fields.
Listing ==
    [id |-> "p2", price |-> 500, bedrooms |-> 3, bathrooms |-> 2, area |-> 90,
     neighborhood |-> <<"E", "l", " ", "P", "o">>, title |-> <<"C", "a", "s", "a">>,
     amenities |-> << <<"J", "a">> >>, description |-> <<"x">>,
     url |-> <<"u", "2">>]

Listings ==
    {Listing}
    \cup {Without(Listing, field) :
             field \in {"title", "price", "bedrooms", "bathrooms", "area",
                        "description", "url", "neighborhood"}}
    \cup {Without(Without(Listing, "price"), "url")}
    \cup {[id |-> "p1", price |-> 300, bedrooms |-> 2, bathrooms |-> 1, area |-> 60,
           neighborhood |-> <<"C", "h">>, title |-> <<"A", "p", "t", "o">>,
           description |-> <<"y">>, url |-> <<"u", "1">>]}

ShownLists == UNION {[1..n -> Listings] : n \in 0..MaxShown}

\* max_properties: below, at and above the lengths of the lists
MaxPropertiesValues == 1..(MaxShown + 1)

FormatPropertyCard ==
    /\ call.op = "none"
    /\ \E i \in 1..Len(call.args.properties), detailed \in BOOLEAN :
           call' = [Called("format_property_card") EXCEPT
                       !.args = [property_data |-> call.args.properties[i],
                                 detailed |-> detailed],
                       !.result = "returned",
                       !.returned =
                           format_property_card(call.args.properties[i], detailed)]
    /\ app_untouched
    /\ UNCHANGED memory

FormatPropertyBrief ==
    /\ call.op = "none"
    /\ \E i \in 1..Len(call.args.properties), index \in 0..1 :
           call' = [Called("format_property_brief") EXCEPT
                       !.args = [property_data |-> call.args.properties[i],
                                 index |-> index],
                       !.result = "returned",
                       !.returned =
                           format_property_brief(call.args.properties[i], index)]
    /\ app_untouched
    /\ UNCHANGED memory

FormatPropertyList ==
    /\ call.op = "none"
    /\ call' = [Called("format_property_list") EXCEPT
                    !.args = call.args,
                    !.result = "returned",
                    !.returned = format_property_list(call.args.properties,
                                                      call.args.max_properties)]
    /\ app_untouched
    /\ UNCHANGED memory

FormatPropertyComparison ==
    /\ call.op = "none"
    /\ LET raised == comparison_key_error(call.args.properties,
                                          call.args.max_properties) # "none"
       IN  call' = [Called("format_property_comparison") EXCEPT
                       !.args = call.args,
                       !.result = IF raised THEN "KeyError" ELSE "returned",
                       !.returned =
                           IF raised THEN <<>>
                           ELSE format_property_comparison(call.args.properties,
                                                           call.args.max_properties)]
    /\ app_untouched
    /\ UNCHANGED memory

FormatPropertyGallery ==
    /\ call.op = "none"
    /\ LET raised == gallery_key_error(call.args.properties,
                                       call.args.max_properties) # "none"
       IN  call' = [Called("format_property_gallery") EXCEPT
                       !.args = call.args,
                       !.result = IF raised THEN "KeyError" ELSE "returned",
                       !.returned =
                           IF raised THEN <<>>
                           ELSE format_property_gallery(call.args.properties,
                                                        call.args.max_properties)]
    /\ app_untouched
    /\ UNCHANGED memory

RenderInit ==
    /\ conversation_contexts = EmptyDict
    /\ agent_instances = EmptyDict
    /\ conversation_metrics = EmptyDict
    /\ DEBUG_MODE = FALSE
    /\ resets = 0
    /\ llm_failures = 0
    /\ memory = NewMemory(FALSE)
    /\ handlers = EmptyDict
    /\ \E properties \in ShownLists, max_properties \in MaxPropertiesValues :
           call = [Called("none") EXCEPT
                      !.args = [properties |-> properties,
                                max_properties |-> max_properties]]

RenderNext ==
    \/ FormatPropertyCard
    \/ FormatPropertyBrief
    \/ FormatPropertyList
    \/ FormatPropertyComparison
    \/ FormatPropertyGallery

RenderSpec == RenderInit /\ [][RenderNext]_vars

(***************************************************************************)
(* search.search_properties, the tool the agent calls.                     *)
(***************************************************************************)
\* str(n) for n >= 0
Digit(d) ==
    CASE d = 0 -> "0" [] d = 1 -> "1" [] d = 2 -> "2" [] d = 3 -> "3" [] d = 4 -> "4"
      [] d = 5 -> "5" [] d = 6 -> "6" [] d = 7 -> "7" [] d = 8 -> "8" [] d = 9 -> "9"

RECURSIVE str_of(_)
str_of(n) == IF n < 10 THEN <<Digit(n)>> ELSE Append(str_of(n \div 10), Digit(n % 10))

\* set(query.lower().split())
query_words_of(query) ==
    {IF digits(query[i]) THEN str_of(query[i].number) ELSE lower(query[i].word) :
        i \in 1..Len(query)}

\* The properties loaded from data/sample_properties.json: the catalog with
\* prices in pesos and a url each.
listed(p) ==
    [k \in (DOMAIN p) \cup {"url"} |->
        IF k = "url" THEN <<"u">> \o p.title
        ELSE IF k = "price" THEN p.price * 1000000
        ELSE p[k]]

sample_properties ==
    [i \in 1..4 |->
        listed(CHOOSE p \in RankCatalog : p.id = <<"p1", "p2", "p3", "p4">>[i])]

\* The data files explored: the catalog, an empty file, and a file with a
\* record that has no price.
DataFiles ==
    { sample_properties,
      <<>>,
      <<Without(sample_properties[2], "price"), sample_properties[1],
        sample_properties[4]>> }

\* "Lo siento, hubo un problema al buscar propiedades. ..."
search_problem_text == [template |-> "problem"]

\* search.py:285-300, inside the try block of search.py:250
search_properties(properties, query, max_results) ==
    LET filters == extract_filters(query)
    IN  IF key_error(properties, filters, FilterKeys, {}) # "none"
        THEN search_problem_text
        ELSE LET filtered_properties == apply_filters(properties, filters)
                 ranked_properties ==
                     rank_properties(filtered_properties, query_words_of(query))
                 results ==
                     Take(ranked_properties,
                          IF max_results <= Len(ranked_properties)
                          THEN max_results ELSE Len(ranked_properties))
             IN  format_property_list(results, max_results)

SearchProperties ==
    /\ call.op = "none"
    /\ call' = [Called("search_properties") EXCEPT
                    !.args = call.args,
                    !.result = "returned",
                    !.returned = search_properties(call.args.properties,
                                                   call.args.query,
                                                   call.args.max_results)]
    /\ app_untouched
    /\ UNCHANGED memory

SearchInit ==
    /\ conversation_contexts = EmptyDict
    /\ agent_instances = EmptyDict
    /\ conversation_metrics = EmptyDict
    /\ DEBUG_MODE = FALSE
    /\ resets = 0
    /\ llm_failures = 0
    /\ memory = NewMemory(FALSE)
    /\ handlers = EmptyDict
    /\ \E properties \in DataFiles, query \in Queries, max_results \in 1..MaxResults :
           call = [Called("none") EXCEPT
                      !.args = [properties |-> properties,
                                query |-> query,
                                max_results |-> max_results]]

SearchNext == SearchProperties

SearchSpec == SearchInit /\ [][SearchNext]_vars

(***************************************************************************)
(* Properties                                                              *)
(***************************************************************************)
HasAgent == Sender \in DOMAIN agent_instances
AgentMemory == agent_instances[Sender]

\* A step of the webhook handler / of save_context on the bare memory.
WebhookStep == call'.op = "webhook" /\ total_messages' = total_messages + 1
SaveContextStep ==
    /\ call'.op = "save_context"
    /\ memory'.engagement_metrics.message_count =
           memory.engagement_metrics.message_count + 1

NumSearches(trace) ==
    Cardinality({i \in 1..Len(trace) : trace[i].tool = "search_properties"})

TraceIds(trace) ==
    UNION {{trace[i].ids[j] : j \in 1..Len(trace[i].ids)} :
              i \in {k \in 1..Len(trace) : trace[k].tool = "search_properties"}}

HistoryIds(m) == {m.property_history[i].id : i \in 1..Len(m.property_history)}

LastN(messages) ==
    SubSeq(messages, Len(messages) - MAX_CONVERSATION_HISTORY + 1, Len(messages))

\* C1: when the memory the handler works on holds at most the pre-loaded first
\* user message and the incoming message has fewer than 3 tokens or contains
\* a greeting keyword, run_agent returns the welcome text and the language
\* model is not invoked for that message.
C1_WelcomeShortCircuit ==
    [][(/\ WebhookStep
        /\ Len(agent_for(total_messages + 1).messages) <= 1
        /\ (call'.input.tokens < 3 \/ call'.input.greeting))
       => (/\ call'.result = "welcome"
           /\ call'.reply = WelcomeText
           /\ ~call'.llm_called)]_vars

C1_Witness ==
    /\ call.op = "webhook"
    /\ call.input.greeting
    /\ call.input.tokens >= 3
    /\ call.result = "welcome"
    /\ ~call.llm_called

\* C2: every message of the sender after the first one is passed to the
\* language model and is not answered with the canned welcome.
C2_OnlyFirstMessageWelcomed ==
    (call.op = "webhook" /\ call.n > 1)
        => (call.llm_called /\ call.result # "welcome")

\* C3: run_agent never propagates an exception; when the language-model call
\* or the post-processing raises, it returns the fallback apology.
C3_RunAgentNeverRaises ==
    call.op = "webhook"
        => /\ call.result \in {"welcome", "output", "fallback"}
           /\ call.reply # TechnicalErrorText
           /\ call.raised_at # "none"
                 => (call.result = "fallback" /\ call.reply = FallbackText)

C3_Witness ==
    /\ call.op = "webhook"
    /\ call.raised_at = "extract"
    /\ call.result = "fallback"

\* C4: when the language-model turn returns a tool trace with k invocations of
\* search_properties, run_agent raises search_count by k and every property id
\* of the trace is in the shown-property history afterwards.
C4_SearchesLogged ==
    [][(WebhookStep /\ call'.llm_called /\ call'.raised_at # "invoke")
       => (/\ AgentMemory'.engagement_metrics.search_count =
                 agent_for(total_messages + 1).engagement_metrics.search_count
                     + NumSearches(call'.trace)
           /\ TraceIds(call'.trace) \subseteq HistoryIds(AgentMemory'))]_vars

\* The texts of the human turns of a history, in order.
HumanTexts(messages) ==
    LET IsHuman(entry) == entry.type = "HumanMessage"
        humans == SelectSeq(messages, IsHuman)
    IN  [i \in 1..Len(humans) |-> humans[i].content]

\* C5: the text preferences are extracted from is exactly the human turns held
\* in memory, in order, and nothing else.
C5_ExtractionReadsUserTurns ==
    (call.op = "webhook" /\ call.result = "output" /\ Len(AgentMemory.messages) > 1)
        => call.conversation_text = HumanTexts(AgentMemory.messages)

\* C6: every entry of a memory's history is a turn tagged human or assistant
\* with text content, the entry summarization puts in place included.
C6_EveryEntryIsATurn ==
    \A m \in {memory} \cup {agent_instances[s] : s \in DOMAIN agent_instances} :
        \A i \in 1..Len(m.messages) : IsMessage(m.messages[i])

\* C7: after a summarization that succeeds the history is one summary entry
\* followed by the last N messages of the history as it stood before, in
\* their order, the turn just recorded among them.
C7_SummaryThenLastN ==
    (call.op = "save_context" /\ call.summarized = "ok")
        => /\ Len(memory.messages) = MAX_CONVERSATION_HISTORY + 1
           /\ memory.messages[1].type = "str"
           /\ memory.messages[1].content.by = "summary"
           /\ \A i \in 1..MAX_CONVERSATION_HISTORY :
                 memory.messages[i + 1] =
                     call.appended[Len(call.appended) - MAX_CONVERSATION_HISTORY + i]
           /\ memory.messages[Len(memory.messages) - 1] = HumanMessage(UserText(call.n))
           /\ memory.messages[Len(memory.messages)] = AIMessage(ModelText(call.n))

C7_Witness ==
    /\ call.op = "save_context"
    /\ call.summarized = "ok"
    /\ Len(call.appended) > MAX_CONVERSATION_HISTORY + 1

\* C8: when the summarization call fails, save_context completes, the history
\* becomes the last N messages (no summary entry), and preferences, property
\* history and counters are what recording the turn alone leaves.
C8_FailedSummaryTruncates ==
    [][(SaveContextStep /\ call'.summarized = "failed")
       => (/\ call'.appended =
                 memory.messages \o <<HumanMessage(UserText(call'.n)),
                                      AIMessage(ModelText(call'.n))>>
           /\ memory'.messages = LastN(call'.appended)
           /\ memory'.user_preferences = memory.user_preferences
           /\ memory'.property_history = memory.property_history
           /\ memory'.engagement_metrics =
                 [memory.engagement_metrics EXCEPT !.message_count = @ + 1])]_vars

C8_Witness ==
    /\ call.op = "save_context"
    /\ call.summarized = "failed"
    /\ DOMAIN memory.user_preferences # {}
    /\ memory.property_history # <<>>

\* Turn k is in the history as recorded / was fed into the summary entry.
Verbatim(k, messages) ==
    /\ \E i \in 1..Len(messages) : messages[i] = HumanMessage(UserText(k))
    /\ \E i \in 1..Len(messages) : messages[i] = AIMessage(ModelText(k))

Covered(k, messages) ==
    \E i \in 1..Len(messages) :
        /\ messages[i].type = "str"
        /\ {UserText(k), ModelText(k)} \subseteq messages[i].content.fed

\* C9: a successful summarization is fed the whole older set, the earlier
\* summary entry included, so it loses no turn: a turn that was verbatim in the
\* history or covered by the summary entry before it is verbatim or covered by
\* the summary entry after it.
C9_SummaryCoversOlderTurns ==
    [][(SaveContextStep /\ call'.summarized = "ok")
       => \A k \in 1..memory'.engagement_metrics.message_count :
             (Verbatim(k, call'.appended) \/ Covered(k, call'.appended))
                 => (Verbatim(k, memory'.messages) \/ Covered(k, memory'.messages))]_vars

\* C10: with a language model configured, save_context summarizes on exactly
\* the turns whose message_count is a multiple of the summary interval.
C10_EveryKthTurn ==
    (call.op = "save_context" /\ memory.llm)
        => (call.summarized # "none"
               <=> memory.engagement_metrics.message_count % SUMMARY_INTERVAL = 0)

\* C10 as amended: ... on exactly the turns whose message_count is a multiple
\* of the summary interval and at which the history, the new turn included,
\* holds more than max(2K, N) entries.
C10_EveryKthTurnOnceLong ==
    (call.op = "save_context" /\ memory.llm)
        => (call.summarized # "none"
               <=> /\ memory.engagement_metrics.message_count % SUMMARY_INTERVAL = 0
                   /\ Len(call.appended) >
                          Max(2 * SUMMARY_INTERVAL, MAX_CONVERSATION_HISTORY))

C10_Witness ==
    /\ call.op = "save_context"
    /\ memory.llm
    /\ call.summarized # "none"
    /\ memory.engagement_metrics.message_count = 2 * SUMMARY_INTERVAL

\* C11: with a language model configured and at most one pre-loaded message,
\* the history never holds more than max(N, 2K) + 2K + 1 entries, neither
\* after a save_context call nor between its appends and its summarization,
\* whether the summarization calls succeed or fail.
MaxHistory ==
    Max(MAX_CONVERSATION_HISTORY, 2 * SUMMARY_INTERVAL) + 2 * SUMMARY_INTERVAL + 1

C11_HistoryBounded ==
    memory.llm
        => /\ Len(memory.messages) <= MaxHistory
           /\ Len(call.appended) <= MaxHistory

C11_Witness ==
    /\ memory.llm
    /\ call.op = "save_context"
    /\ Len(call.appended) = MaxHistory
    /\ call.summarized = "failed"
    /\ Len(memory.messages) = MAX_CONVERSATION_HISTORY

\* C12: after clear(), whatever preceded it, the history is empty, the user
\* preferences are the empty mapping, the property history is empty and the
\* four engagement counters are 0: the memory is the one __init__ builds for
\* the same language model, so the summarization cycle restarts from turn 0.
C12_ClearResetsEverything ==
    call.op = "clear"
        => /\ memory.messages = <<>>
           /\ memory.user_preferences = EmptyDict
           /\ memory.property_history = <<>>
           /\ memory.engagement_metrics.message_count = 0
           /\ memory.engagement_metrics.search_count = 0
           /\ memory.engagement_metrics.property_clicks = 0
           /\ memory.engagement_metrics.interest_indicators = 0
           /\ memory = NewMemory(memory.llm)

C12_Witness ==
    /\ call.op = "clear"
    /\ call.n > 2 * SUMMARY_INTERVAL
    /\ memory.llm
    /\ memory = NewMemory(TRUE)

IsPrefix(s, t) == Len(s) <= Len(t) /\ SubSeq(t, 1, Len(s)) = s

NoDuplicateIds(m) ==
    \A i, j \in 1..Len(m.property_history) :
        m.property_history[i].id = m.property_history[j].id => i = j

\* C13: the shown-property history never contains two entries with the same
\* id; add_property_to_history with an id already present changes nothing,
\* with a new id it appends that one entry at the end; and no call other than
\* clear() removes or reorders entries.
C13_PropertyHistoryDeduplicated ==
    /\ []NoDuplicateIds(memory)
    /\ [][/\ call'.op = "add_property_to_history" /\ "id" \in DOMAIN call'.args
              => IF call'.args.id \in HistoryIds(memory)
                 THEN memory' = memory
                 ELSE memory' = [memory EXCEPT
                                    !.property_history = Append(@, call'.args)]
           /\ call'.op # "clear"
              => IsPrefix(memory.property_history, memory'.property_history)]_vars

C13_Witness ==
    /\ call.op = "add_property_to_history"
    /\ call.args = [id |-> "p1", title |-> "Apartamento"]
    /\ Len(memory.property_history) = 2
    /\ memory.property_history[1] = [id |-> "p2"]
    /\ memory.property_history[2] = [id |-> "p1"]

\* C14: update_user_preferences(partial) sets every key of partial to
\* partial's value, leaves every other preference key and value and the rest
\* of the memory unchanged; and no call other than clear() removes a
\* preference key.
C14_PreferencesMerged ==
    [][/\ call'.op = "update_user_preferences"
          => /\ DOMAIN memory'.user_preferences =
                    (DOMAIN memory.user_preferences) \cup (DOMAIN call'.args)
             /\ \A k \in DOMAIN call'.args :
                    memory'.user_preferences[k] = call'.args[k]
             /\ \A k \in (DOMAIN memory.user_preferences) \ (DOMAIN call'.args) :
                    memory'.user_preferences[k] = memory.user_preferences[k]
             /\ memory' = [memory EXCEPT
                              !.user_preferences = memory'.user_preferences]
       /\ call'.op # "clear"
          => DOMAIN memory.user_preferences \subseteq DOMAIN memory'.user_preferences]_vars

C14_Witness ==
    /\ call.op = "update_user_preferences"
    /\ call.args = [bedrooms |-> 2]
    /\ memory.user_preferences = [bedrooms |-> 2, property_type |-> "casa"]

\* The entries of the three dicts that belong to one sender.
Restrict(d, key) == [k \in (DOMAIN d) \cap {key} |-> d[k]]

only_user(w, sender) ==
    [contexts |-> Restrict(w.contexts, sender),
     agents |-> Restrict(w.agents, sender),
     metrics |-> Restrict(w.metrics, sender)]

\* C15: under any interleaving of handlers (and resets) of distinct senders,
\* a sender whose handler has returned has the conversation context, agent
\* memory and metrics it would have had only its own requests been served,
\* and no step of one sender's handler changes another sender's entries.
C15_SendersIsolated ==
    /\ [](\A sender \in DOMAIN handlers :
              handlers[sender].pc = "idle"
                  => only_user(World, sender) = handlers[sender].alone)
    /\ [][\A sender, other \in DOMAIN handlers :
              (sender # other /\ handlers'[sender] # handlers[sender])
                  => only_user(World, other)' = only_user(World, other)]_vars

C15_Witness ==
    /\ DOMAIN handlers = Senders
    /\ handlers[OtherSender].pc = "reply"
    /\ handlers[Sender].pc = "process"
    /\ conversation_metrics[Sender].total_messages = 2
    /\ Len(agent_instances[Sender].messages) >= 3
    /\ Len(agent_instances[OtherSender].messages) >= 3

\* C16: every reply the webhook hands to the messaging transport is at most
\* 4096 characters long, whatever text run_agent returned.
C16_RepliesWithinLimit ==
    call.op = "webhook" => text_length(call.reply) <= MAX_LENGTH

\* C17: templates.format_whatsapp_message returns a message of at most 4096
\* characters unchanged; for a longer message it returns a text strictly
\* shorter than 4096 characters that ends with the truncation notice and
\* whose part before the notice is a prefix of the message.
C17_LengthGuard ==
    call.op = "format_whatsapp_message"
        => LET message == call.args.message
               out == call.returned
               kept == Len(out) - Len(TruncationNotice)
           IN  /\ Len(message) <= MAX_LENGTH => out = message
               /\ Len(message) > MAX_LENGTH
                     => /\ Len(out) < MAX_LENGTH
                        /\ kept >= 0
                        /\ SubSeq(out, kept + 1, Len(out)) = TruncationNotice
                        /\ SubSeq(out, 1, kept) = SubSeq(message, 1, kept)

C17_Witness ==
    /\ call.op = "format_whatsapp_message"
    /\ Len(call.args.message) = 5000
    /\ Len(call.returned) = 2868 + Len(TruncationNotice)

\* C18: apply_filters is idempotent: applied to its own result with the same
\* filter set, amenities key included, it returns that result.
C18_ApplyFiltersIdempotent ==
    call.op = "apply_filters_again" => call.returned = call.args.properties

C18_Witness ==
    /\ call.op = "apply_filters_again"
    /\ "amenities" \in DOMAIN call.args.filters
    /\ "neighborhoods" \in DOMAIN call.args.filters
    /\ Len(call.returned) >= 2
    /\ \E i \in 1..Len(call.returned) : "amenities" \notin DOMAIN call.returned[i]

\* s can be obtained from t by deleting elements.
RECURSIVE IsSubsequence(_, _)
IsSubsequence(s, t) ==
    IF s = <<>> THEN TRUE
    ELSE IF t = <<>> THEN FALSE
    ELSE IF Head(s) = Head(t) THEN IsSubsequence(Tail(s), Tail(t))
    ELSE IsSubsequence(s, Tail(t))

\* The hard constraints other than the property type.
SatisfiesBounds(p, filters) ==
    /\ "min_price" \in DOMAIN filters => p.price >= filters.min_price
    /\ "max_price" \in DOMAIN filters => p.price <= filters.max_price
    /\ "min_bedrooms" \in DOMAIN filters => p.bedrooms >= filters.min_bedrooms
    /\ "min_bathrooms" \in DOMAIN filters => p.bathrooms >= filters.min_bathrooms
    /\ "min_area" \in DOMAIN filters => p.area >= filters.min_area
    /\ "neighborhoods" \in DOMAIN filters
          => \E i \in 1..Len(filters.neighborhoods) :
                Contains(lower(p.neighborhood), lower(filters.neighborhoods[i]))

\* ... with the title containing the property type, as written / whatever
\* the case of the letters.
SatisfiesAsWritten(p, filters) ==
    /\ SatisfiesBounds(p, filters)
    /\ "property_type" \in DOMAIN filters
          => Contains(p.title, filters.property_type)

Satisfies(p, filters) ==
    /\ SatisfiesBounds(p, filters)
    /\ "property_type" \in DOMAIN filters
          => Contains(lower(p.title), lower(filters.property_type))

\* C19: apply_filters returns a subsequence of its input, every returned
\* property satisfies every active hard constraint (price bounds, bedrooms,
\* bathrooms, area, neighborhood contains a requested one case-insensitively,
\* title contains the property type), and without an amenities key the result
\* is exactly the input properties satisfying all active constraints.
C19_SurvivorsSatisfyConstraints ==
    call.op = "apply_filters"
        => LET filters == call.args.filters
               Ok(p) == SatisfiesAsWritten(p, filters)
           IN  /\ IsSubsequence(call.returned, call.args.properties)
               /\ \A i \in 1..Len(call.returned) : Ok(call.returned[i])
               /\ "amenities" \notin DOMAIN filters
                     => call.returned = SelectSeq(call.args.properties, Ok)

\* C19 as amended: ... title contains the property type case-insensitively ...
C19_SurvivorsSatisfyConstraintsAnyCase ==
    call.op = "apply_filters"
        => LET filters == call.args.filters
               Ok(p) == Satisfies(p, filters)
           IN  /\ IsSubsequence(call.returned, call.args.properties)
               /\ \A i \in 1..Len(call.returned) : Ok(call.returned[i])
               /\ "amenities" \notin DOMAIN filters
                     => call.returned = SelectSeq(call.args.properties, Ok)

C19_Witness ==
    /\ call.op = "apply_filters"
    /\ DOMAIN call.args.filters =
           {"min_price", "max_price", "min_bedrooms", "neighborhoods", "property_type"}
    /\ Len(call.args.properties) = MaxProperties
    /\ Len(call.returned) = 1
    /\ call.returned[1].title = <<"L", "a", " ", "c", "a", "s", "a">>
    /\ call.args.properties[1] # call.returned[1]

\* The property lists at least one of the requested amenities.
ListsRequested(p, amenities) ==
    /\ "amenities" \in DOMAIN p
    /\ \E i \in 1..Len(amenities) :
           \E j \in 1..Len(p.amenities) :
               lower(p.amenities[j]) = lower(amenities[i])

\* C20: with an amenities key, S the properties surviving all other filters
\* and A the members of S listing at least one requested amenity,
\* apply_filters returns A when A is non-empty and S otherwise; so a
\* non-empty S never gives an empty result.
C20_AmenitySoftFilter ==
    (call.op = "apply_filters" /\ "amenities" \in DOMAIN call.args.filters)
        => LET filters == call.args.filters
               Survives(p) == Satisfies(p, filters)
               Lists(p) == ListsRequested(p, filters.amenities)
               S == SelectSeq(call.args.properties, Survives)
               A == SelectSeq(S, Lists)
           IN  /\ call.returned = IF A # <<>> THEN A ELSE S
               /\ S # <<>> => call.returned # <<>>

C20_Witness ==
    /\ call.op = "apply_filters"
    /\ "amenities" \in DOMAIN call.args.filters
    /\ "property_type" \in DOMAIN call.args.filters
    /\ Len(call.returned) = 2
    /\ Len(call.args.properties) = 3
    /\ "amenities" \notin DOMAIN call.returned[1]
    /\ \A i \in 1..Len(call.returned) :
           ~ListsRequested(call.returned[i], call.args.filters.amenities)

\* The fields the active filters of a filter set need.
NeededFields(filters) ==
    {FieldOf(FilterKeys[i]) :
        i \in {j \in 1..Len(FilterKeys) : FilterKeys[j] \in DOMAIN filters}}

HasNeededFields(p, filters) == NeededFields(filters) \subseteq DOMAIN p

\* C21: when a filter key is active and a property lacks the field the key
\* needs, apply_filters raises no error, excludes that property and still
\* returns the other properties that match.
C21_MissingFieldExcluded ==
    call.op = "apply_filters"
        => LET filters == call.args.filters
               Matches(p) == HasNeededFields(p, filters) /\ Satisfies(p, filters)
           IN  /\ call.result = "returned"
               /\ \A i \in 1..Len(call.returned) :
                      HasNeededFields(call.returned[i], filters)
               /\ "amenities" \notin DOMAIN filters
                      => call.returned = SelectSeq(call.args.properties, Matches)

\* The properties of a list whose relevance score is v, in the list's order,
\* without the _score field.
WithScore(properties, query_words, v) ==
    LET Scores(p) == score(p, query_words) = v
        picked == SelectSeq(properties, Scores)
    IN  [i \in 1..Len(picked) |-> Without(picked[i], "_score")]

\* C22: rank_properties returns a permutation of its input in non-increasing
\* order of relevance score, properties of equal score in their input order;
\* a list of 0 or 1 properties is returned unchanged.
C22_RankedStably ==
    call.op = "rank_properties"
        => LET properties == call.args.properties
               query_words == call.args.query_words
               out == call.returned
           IN  /\ Len(out) = Len(properties)
               /\ \A i \in 1..(Len(out) - 1) :
                      score(out[i], query_words) >= score(out[i + 1], query_words)
               /\ \A i \in 1..Len(properties) :
                      LET v == score(properties[i], query_words)
                      IN  WithScore(out, query_words, v)
                              = WithScore(properties, query_words, v)
               /\ Len(properties) < 2 => out = properties

C22_Witness ==
    /\ call.op = "rank_properties"
    /\ Len(call.returned) = 3
    /\ call.returned[1].id = "p4"
    /\ call.returned[2].id = "p3"
    /\ call.returned[3].id = "p1"
    /\ call.returned[1]._score = call.returned[2]._score
    /\ call.returned[2]._score > call.returned[3]._score
    /\ call.args.properties[1].id = "p1"
    /\ call.args.properties[2].id = "p4"

\* The price bounds the stated precedence gives a query: the first of range,
\* hasta|máximo, desde|mínimo, bare amount that occurs in it.
StatedAmount(query, i) == number_at(query, i) /\ i + 1 <= Len(query)
                              /\ query[i + 1] = Word(str_millones)

StatedRange(query) ==
    leftmost({i \in 1..Len(query) :
                 /\ query[i] = Word(str_entre)
                 /\ number_at(query, i + 1)
                 /\ i + 2 <= Len(query) /\ query[i + 2] = Word(str_y)
                 /\ StatedAmount(query, i + 3)})

StatedLed(query, leads) ==
    leftmost({i \in 1..Len(query) :
                 /\ ~digits(query[i]) /\ query[i].word \in leads
                 /\ StatedAmount(query, i + 1)})

StatedBare(query) == leftmost({i \in 1..Len(query) : StatedAmount(query, i)})

StatedPrice(query) ==
    LET range == StatedRange(query)
        hasta == StatedLed(query, {str_hasta, str_maximo, str_maximo_accented})
        desde == StatedLed(query, {str_desde, str_minimo, str_minimo_accented})
        bare == StatedBare(query)
    IN  IF range > 0
        THEN [k \in {"min_price", "max_price"} |->
                 IF k = "min_price" THEN query[range + 1].number * 1000000
                 ELSE query[range + 3].number * 1000000]
        ELSE IF hasta > 0
        THEN [k \in {"max_price"} |-> query[hasta + 1].number * 1000000]
        ELSE IF desde > 0
        THEN [k \in {"min_price"} |-> query[desde + 1].number * 1000000]
        ELSE IF bare > 0
        THEN [k \in {"max_price"} |-> query[bare].number * 1000000]
        ELSE EmptyDict

\* The price bounds of a result, under the names of the filters.
PriceBounds(returned) ==
    LET NameOf(k) == IF k \in {"min_price", "budget_min"} THEN "min_price"
                     ELSE "max_price"
        keys == (DOMAIN returned)
                    \cap {"min_price", "max_price", "budget_min", "budget_max"}
    IN  [n \in {NameOf(k) : k \in keys} |->
            returned[CHOOSE k \in keys : NameOf(k) = n]]

\* C23: for a query with a price phrase, the price bounds extracted are those
\* of the first pattern that matches, in the order range, hasta|máximo,
\* desde|mínimo, bare amount: a range sets both bounds, hasta only the
\* maximum, desde only the minimum and no maximum, a bare amount the maximum.
C23_PricePrecedence ==
    (/\ call.op \in {"extract_filters", "extract_client_preferences"}
     /\ StatedPrice(call.args.query) # EmptyDict)
        => PriceBounds(call.returned) = StatedPrice(call.args.query)

\* Claim helper: the query matches no category at all.
NoCategory(query) ==
    \A i \in 1..Len(query) :
        /\ ~digits(query[i])
        /\ lower(query[i].word) \notin
               {str_apartamento, str_apto, str_apartamentos, str_casa, str_casas}
        /\ found_in(<<Word(lower(query[i].word))>>,
                    neighborhood_names \o amenity_names) = <<>>

\* C24: extract_filters sets a key only when that key's category matches: no
\* price phrase gives no price bound (an area "N m2" or "N metros" gives
\* min_area and no price bound), a query that is only a price range gives
\* exactly min_price and max_price, and a query matching no category gives
\* the empty mapping.
C24_OnlyMatchingCategories ==
    call.op = "extract_filters" =>
        LET query == call.args.query
            keys == DOMAIN call.returned
        IN  /\ StatedPrice(query) = EmptyDict
                => keys \cap {"min_price", "max_price"} = {}
            /\ (Len(query) = 2 /\ digits(query[1])
                    /\ query[2].word \in {str_m2, str_metros})
                => /\ keys = {"min_area"}
                   /\ call.returned.min_area = query[1].number
            /\ (StatedRange(query) = 1 /\ Len(query) = 5)
                => keys = {"min_price", "max_price"}
            /\ NoCategory(query) => call.returned = EmptyDict

\* formatted.split("\n")
RECURSIVE split_lines_from(_, _, _)
split_lines_from(text, i, line) ==
    IF i > Len(text) THEN <<line>>
    ELSE IF text[i] = "\n" THEN <<line>> \o split_lines_from(text, i + 1, <<>>)
    ELSE split_lines_from(text, i + 1, Append(line, text[i]))

split_lines(text) == split_lines_from(text, 1, <<>>)

NoLineLonger(text, max_line_length) ==
    \A i \in 1..Len(split_lines(text)) : Len(split_lines(text)[i]) <= max_line_length

RequiredFields ==
    {"title", "price", "bedrooms", "bathrooms", "area", "description", "url"}

\* The fields the brief interpolates without a default.
BriefFields == RequiredFields \ {"bathrooms"}

\* text is the error string naming a field of `fields` that property_data lacks
NamesMissing(text, property_data, fields) ==
    /\ text.template = "error"
    /\ text.missing \in fields \ DOMAIN property_data

\* the entries of a rendered list stand for the first properties of the
\* list: the error string for a property lacking one of `fields`, its brief
\* for any other
EntriesFor(properties, max_properties, fields) ==
    /\ call.result = "returned"
    /\ call.returned.template = "list"
    /\ Len(call.returned.entries) = Len(Take(properties, max_properties))
    /\ \A i \in 1..Len(call.returned.entries) :
           IF fields \subseteq DOMAIN properties[i]
           THEN /\ call.returned.entries[i].template = "brief"
                /\ call.returned.entries[i].title = properties[i].title
                /\ call.returned.entries[i].url = properties[i].url
           ELSE NamesMissing(call.returned.entries[i], properties[i], fields)

\* C25 as stated: a record lacking one of title, price, bedrooms, bathrooms,
\* area, description, url makes the card and the brief return the error
\* string naming a missing field, and the list shows that string in the
\* entry's place and renders every other property.
C25_MissingFieldNamed ==
    /\ (/\ call.op \in {"format_property_card", "format_property_brief"}
        /\ ~(RequiredFields \subseteq DOMAIN call.args.property_data))
           => /\ call.result = "returned"
              /\ NamesMissing(call.returned, call.args.property_data, RequiredFields)
    /\ (call.op = "format_property_list" /\ call.args.properties # <<>>)
           => EntriesFor(call.args.properties, call.args.max_properties,
                         RequiredFields)

\* C25, amended: the card requires the seven fields; the brief and the list
\* require title, price, bedrooms, area, description and url, and render a
\* record that lacks only bathrooms as any other.
C25_MissingRenderedFieldNamed ==
    /\ (/\ call.op = "format_property_card"
        /\ ~(RequiredFields \subseteq DOMAIN call.args.property_data))
           => /\ call.result = "returned"
              /\ NamesMissing(call.returned, call.args.property_data, RequiredFields)
    /\ (/\ call.op = "format_property_brief"
        /\ ~(BriefFields \subseteq DOMAIN call.args.property_data))
           => /\ call.result = "returned"
              /\ NamesMissing(call.returned, call.args.property_data, BriefFields)
    /\ (/\ call.op = "format_property_brief"
        /\ BriefFields \subseteq DOMAIN call.args.property_data)
           => call.returned.template = "brief"
    /\ (call.op = "format_property_list" /\ call.args.properties # <<>>)
           => EntriesFor(call.args.properties, call.args.max_properties,
                         BriefFields)

C25_Witness ==
    /\ call.op = "format_property_list"
    /\ Len(call.args.properties) = 2
    /\ call.args.max_properties = 2
    /\ call.args.properties[1] = Without(Listing, "price")
    /\ call.args.properties[2] = Listing
    /\ call.returned.entries[1] = error_text("price")
    /\ call.returned.entries[2].template = "brief"

\* C26: for a list in which some property lacks an expected field, the
\* gallery and the comparison return a text, without raising, in which the
\* other properties are rendered.
C26_GalleryAndComparisonDegrade ==
    call.op \in {"format_property_gallery", "format_property_comparison"}
        => /\ call.result = "returned"
           /\ call.returned.template \in {"gallery", "comparison"}
                  => \A i \in 1..Len(Take(call.args.properties,
                                          call.args.max_properties)) :
                         RequiredFields \subseteq DOMAIN call.args.properties[i]
                             => IF call.returned.template = "gallery"
                                THEN call.returned.entries[i].url
                                         = call.args.properties[i].url
                                ELSE call.returned.urls[i]
                                         = call.args.properties[i].url

\* C27: with T properties matching the extracted filters and result bound
\* M, the reply lists the first min(T, M) properties in rank order, states T
\* as the number found and, when T > M, notes that T - M more match; with
\* T = 0 it is the fixed message.
C27_ReplyCountsMatches ==
    (/\ call.op = "search_properties"
     /\ \A i \in 1..Len(call.args.properties) :
            RequiredFields \subseteq DOMAIN call.args.properties[i])
        => LET matching ==
                   apply_filters(call.args.properties,
                                 extract_filters(call.args.query))
               ranked == rank_properties(matching, query_words_of(call.args.query))
               T == Len(matching)
               M == call.args.max_results
           IN  IF T = 0 THEN call.returned = no_properties_text
               ELSE /\ call.returned.template = "list"
                    /\ Len(call.returned.entries) = (IF T <= M THEN T ELSE M)
                    /\ \A i \in 1..Len(call.returned.entries) :
                           call.returned.entries[i].url = ranked[i].url
                    /\ call.returned.total_count = T
                    /\ T > M => call.returned.more = T - M

\* C29: whenever run_agent returns the fallback apology, the sender's memory
\* is as it was when run_agent was entered: no turn appended, counters,
\* preferences and property history unchanged.
C29_FallbackLeavesMemory ==
    [][(WebhookStep /\ call'.result = "fallback")
       => AgentMemory' = agent_for(total_messages + 1)]_vars

\* C30: when every language-model call succeeds, every message that is not
\* answered with the welcome is answered with the model's text, also after a
\* summarization has put a summary entry in place of older turns.
C30_SummarizationKeepsAnswering ==
    (call.op = "webhook" /\ call.result # "welcome")
        => (call.result = "output" /\ call.reply = ModelText(call.n))

====
